---- MODULE Spec2Model ----
\* Bounce Beats: the entity manager, the command history and the interaction
\* controller, modelled from public/src/{EntityManager,CommandHistory,commands,
\* physics,InteractionController,UIManager,InputController,game}.js.
EXTENDS Integers, Sequences, FiniteSets, TLC

\* ---------------------------------------------------------------- bounds
\* Line objects ever constructed in one behaviour (new Line(...)).
MaxLineObjs == 2
\* Spawner objects ever constructed in one behaviour.
MaxSpawnerObjs == 1
\* Balls alive at the same time.
MaxBalls == 1
\* CommandHistory's maxHistorySize (a constructor parameter; 100 by default).
maxHistorySize == 2

\* ------------------------------------------------------- program constants
minLineLength == 50
spawnerIntervalMs == 1500
lineHoverThreshold == 15
spawnerHoverThreshold == 25
endpointHoverThreshold == 20
minDragDistance == 10
deleteButtonOffset == 50
multiDeleteButtonLift == 20
handleSize == 10
spawnerBoxHalf == 20
multiSelectionPadding == 20
minResizeSize == 50
statsPadding == 16
statsPanelWidth == 110
statsPanelHeight == 90
helpIconSize == 24
helpIconPadding == 10
deleteButtonWidth == 100
deleteButtonHeight == 40
offScreenMargin == 200
screenHeight == 600
screenWidth == 320

\* ------------------------------------------------------------------ inputs
\* Segments handed to addLine / updateLinePosition: a long one (length 60)
\* and a short one (length 42 < 50).
SegInputs == { <<0, 0, 60, 0>>, <<0, 0, 30, 30>> }
\* Points handed to updateLineEndpoint and addSpawner.
PtInputs == { <<60, 60>> }

\* The pointer positions of the controller's events.
Pos == { <<0, 0>>, <<30, 0>>, <<60, 0>> }

\* The largest burst of balls one frame sprays.
MaxBurst == 1

\* The number of events and frames of a session the controller is followed for.
MaxEvents == 10

\* The number of pointer and history-key events a drag session is followed for.
MaxDragEvents == 13

\* The scene of a multi-selection session: up to three spawners and a line
\* among them, and the pointer positions of its events: two points inside
\* the box around the scene and its lower right corner.
SceneSpawners == << <<100, 100>>, <<140, 100>>, <<100, 140>> >>
SceneLine == <<100, 120, 160, 120>>
MultiPos == { <<120, 120>>, <<170, 170>>, <<180, 180>> }

\* The number of events a multi-selection session is followed for, and the
\* Line and Spawner objects it may create.
MaxMultiEvents == 8
MaxSceneLineObjs == 2
MaxSceneSpawnerObjs == 4

\* The pointer positions of a resize session (the lower right corner of the
\* box around the scene, and where a box of half and of twice its size has
\* that corner), and the number of events it is followed for.
ResizePos == { <<120, 120>>, <<180, 180>>, <<300, 300>> }
MaxResizeEvents == 10

\* The number of events a session of selecting, dragging, undoing and redoing
\* is followed for.
MaxGroupEvents == 11

\* The pointer positions of a session that tries every kind of press: those
\* of a multi-selection session, the first spawner (under the delete button
\* of the selected line), the line's end, a point on the delete button of the
\* multi-selection, and the help icon.
ModePos == MultiPos \cup { <<100, 100>>, <<160, 120>>, <<120, 20>>,
                          <<screenWidth - 104, 128>> }

\* The number of events such a session is followed for.
MaxModeEvents == 7

\* Balls alive at the same time when the ball collection is followed alone.
MaxSceneBalls == 3

\* Positions handed to addBall there: on screen, on the off-screen line
\* (y = screenHeight + 200, not beyond it) and beyond it.
BallInputs == { <<60, 60>>, <<60, 800>>, <<60, 801>> }

\* The frame-to-frame time steps, in ms, when the spawners are followed
\* against the clock, and the time they are followed for.
TickInputs == { 500, 1000 }
MaxTime == 6000

\* The significand width of a number when arithmetic is followed with its
\* rounding (a JavaScript number has 53 bits).
MantissaBits == 6

\* The resize gesture followed with the rounding of its arithmetic: the box
\* around the selection at pointer-down, the coordinates of a selected point
\* in it, the positions (x = y) the pointer is moved to, and the number of
\* moves of a gesture.
GestureBoxMin == 56
GestureBoxMax == 168
GestureCoords == { 76, 100, 148 }
GesturePos == { 0, 56, 112, 168, 224 }
MaxGestureMoves == 2

\* The frame-to-frame time steps, in ms, of a session with the pause key, the
\* time it is followed for, the number of its events and of its balls.
PauseTicks == { 600, 1000 }
MaxPauseTime == 3200
MaxPauseEvents == 4
MaxPauseBalls == 3

\* The box edges and the coordinates handed to scaleMultiple there.
ScaleEdges == { 0, 3, 10 }
ScaleCoords == { 1, 3, 7 }

\* The welcome screen: the fall lasts 5000 ms; the two crossed lines start
\* 50 from the screen's sides, 80 above its bottom, tilted by 60.
welcomeFallMs == 5000
welcomeLineMargin == 50
welcomeLineLift == 80
welcomeLineTilt == 60

\* The positions of the balls that spell the title, and the first handle
\* below theirs.
WelcomeText == << <<100, 60>>, <<120, 60>> >>
WelcomeBallId == 100

\* A session from the welcome screen: the frame-to-frame time steps, the time
\* and the pointer events it is followed for, and the balls alive in it.
AnimateTicks == { 2000, 3000 }
MaxAnimateTime == 12000
MaxAnimateEvents == 3
MaxAnimateBalls == 4

\* PHYSICS_CONFIG, and the frame rate below which update() caps delta.
fixedTimeStepHz == 240
maxSubSteps == 4
maxDeltaHz == 30

\* Time in the physics engine is counted in ticks of 1/6 ms, in which both the
\* fixed time step (25) and the cap on delta (200) are whole numbers.
TicksPerMs == 6

\* The deltas handed to physics.update, in ticks: none, less than a step, a
\* step, between one and four steps, four steps, the cap, and beyond it.
DeltaInputs == { 0, 1, 7, 24, 25, 26, 60, 99, 100, 101, 199, 200, 201, 6000 }

\* setSpawnerInterval's range, and handleWheel's reach, step per scroll tick
\* and stand-in for a missing interval.
intervalMin == 100
intervalMax == 5000
wheelReach == 50
wheelStepMs == 50
wheelDefaultInterval == 1500

\* The wheel followed alone: two spawners, the pointer on the first, on the
\* second, within reach of both and of neither; the scroll ticks of one wheel
\* event (a second's worth, or more than the whole range); the intervals
\* handed to setSpawnerInterval directly.
WheelSpawners == << <<100, 100>>, <<180, 100>> >>
WheelPos == { <<100, 100>>, <<180, 100>>, <<140, 100>>, <<0, 0>> }
WheelDeltas == { -200, -20, 20, 200 }
IntervalInputs == { -1000, 0, 50, 99, 100, 2500, 5000, 5001, 100000 }

\* The spatial queries followed alone: two parallel lines 10 apart and two
\* spawners 20 apart, added in either order; pointer positions between the
\* lines, at the threshold's distance from the first of them, near both
\* starts, near the start of a shortened line, and likewise for the spawners;
\* the thresholds are the three hover thresholds.
QueryLines == { <<0, 0, 60, 0>>, <<0, 10, 60, 10>> }
QuerySpawners == { <<100, 100>>, <<120, 100>> }
QueryPos == { <<30, 8>>, <<30, 15>>, <<30, 40>>, <<0, 8>>, <<8, 0>>, <<20, 0>>,
              <<115, 100>>, <<125, 100>> }
QueryThresholds == { lineHoverThreshold, endpointHoverThreshold, spawnerHoverThreshold }
\* The length a line is shortened to there.
ShortLength == 10

\* The held-pointer spray: the hold that starts it, the time between two
\* bursts, the largest burst and the hold that adds a ball to the burst; the
\* longest press that is a click.
holdThreshold == 500
clickThreshold == 200
ballSprayInterval == 150
maxBurstSize == 3
burstStepMs == 1000

\* The spray followed against the clock: the frame-to-frame time steps, the
\* time and the number of pointer and key events it is followed for, and the
\* balls alive in it.
SprayTicks == { 100, 150, 500 }
MaxSprayTime == 2600
MaxSprayEvents == 3
MaxSprayBalls == 4

\* ------------------------------------------------------------- state
VARIABLES
    entities,   \* EntityManager: lines, balls, spawners, the physics world, and the objects they refer to
    history,    \* CommandHistory: undoStack, redoStack
    last,       \* the operation performed last: its name, arguments and return value
    run,        \* the current window of executes / undos / redos and the scene contents at its marks
    drawing,    \* InteractionController.drawing
    dragging,   \* InteractionController.dragging
    ui,         \* UIManager: hovered, selected, areaSelection, multiSelectionBounds, deleteButton, help
    shiftPressed, \* InteractionController.shiftPressed
    origin,     \* the coordinates, at the pointer-down that started it, of what the current drag moves
    mouse,      \* InputController.mouse
    isPaused,   \* Game.isPaused
    events,     \* the number of events and frames the controller has handled
    clock,      \* Game.lastFrameTime: the timestamp of the current frame, in ms
    births,     \* per spawner object: the time it was created at and the balls it has produced
    welcome,    \* UIManager.welcome, with EntityManager's welcomeBalls and welcomeLines
    accumulator, \* PhysicsEngine.accumulator, in ticks of 1 / TicksPerMs ms
    timers      \* InputController's mouse.downTime and InteractionController.lastBallSpray, in ms
                \* (lastBallSpray is followed where the spray is timed; elsewhere a frame's burst is free)

ctlVars == <<drawing, dragging, ui, shiftPressed, origin, mouse, isPaused, events>>
engineVars == <<welcome, accumulator>>
timeVars == <<clock, births, engineVars>>
vars == <<entities, history, last, run, ctlVars, timeVars, timers>>

\* ---------------------------------------------------------------- helpers
Null == 0

SeqToSet(s) == { s[i] : i \in 1..Len(s) }

RECURSIVE SeqWithout(_, _)
\* Array.prototype.indexOf + splice(index, 1): drops the first occurrence.
SeqWithout(s, x) ==
    IF s = << >> THEN << >>
    ELSE IF Head(s) = x THEN Tail(s)
    ELSE <<Head(s)>> \o SeqWithout(Tail(s), x)

Min(S) == CHOOSE m \in S : \A n \in S : m <= n
Max(S) == CHOOSE m \in S : \A n \in S : m >= n
Last(s) == s[Len(s)]

\* dx*dx + dy*dy: Math.hypot(dx, dy) squared.
Hypot2(dx, dy) == dx * dx + dy * dy

\* ------------------------------------------------------ JavaScript numbers
\* A number is <<m, e>>, the value m * 2^e with m odd (or <<0, 0>>): a binary
\* floating-point number with a significand of MantissaBits bits. Every
\* arithmetic operation returns the exact result rounded to the nearest such
\* number, ties to even.
RECURSIVE Pow2(_)
Pow2(k) == IF k = 0 THEN 1 ELSE 2 * Pow2(k - 1)

Abs(n) == IF n < 0 THEN -n ELSE n

RECURSIVE Canon(_, _)
Canon(m, e) ==
    IF m = 0 THEN <<0, 0>>
    ELSE IF m % 2 = 0 THEN Canon(m \div 2, e + 1)
    ELSE <<m, e>>

RECURSIVE RoundAbs(_, _, _)
\* a / d > 0 rounded to MantissaBits significant bits: <<m, e>> with
\* a / d ~ m * 2^e.
RoundAbs(a, d, e) ==
    IF a >= d * Pow2(MantissaBits) THEN RoundAbs(a, 2 * d, e + 1)
    ELSE IF a < d * Pow2(MantissaBits - 1) THEN RoundAbs(2 * a, d, e - 1)
    ELSE LET q == a \div d
             r == a % d
         IN IF 2 * r > d \/ (2 * r = d /\ q % 2 = 1) THEN <<q + 1, e>> ELSE <<q, e>>

\* The rational n / d (d > 0) as a number.
Round(n, d) ==
    IF n = 0 THEN <<0, 0>>
    ELSE LET r == RoundAbs(Abs(n), d, 0)
         IN Canon(IF n < 0 THEN -r[1] ELSE r[1], r[2])

\* A number's exact value as a fraction <<numerator, denominator>>.
Exact(f) == IF f[2] >= 0 THEN <<f[1] * Pow2(f[2]), 1>> ELSE <<f[1], Pow2(-f[2])>>

Num(i) == Round(i, 1)

fadd(f, g) ==
    LET a == Exact(f) b == Exact(g) IN Round(a[1] * b[2] + b[1] * a[2], a[2] * b[2])
fsub(f, g) ==
    LET a == Exact(f) b == Exact(g) IN Round(a[1] * b[2] - b[1] * a[2], a[2] * b[2])
fmul(f, g) ==
    LET a == Exact(f) b == Exact(g) IN Round(a[1] * b[1], a[2] * b[2])
\* g is not zero.
fdiv(f, g) ==
    LET a == Exact(f) b == Exact(g)
    IN IF b[1] > 0 THEN Round(a[1] * b[2], a[2] * b[1])
       ELSE Round(-(a[1] * b[2]), a[2] * (-b[1]))

\* --------------------------------------------------------- physics.js
\* Matter.Bodies.rectangle(centerX, centerY, length, thickness, {angle}) of a
\* Line: the centre is kept doubled (x1 + x2, y1 + y2), the length squared and
\* the angle atan2(dy, dx) as its direction vector.
LineBody(id, x1, y1, x2, y2) ==
    [ label |-> "line", id |-> id,
      cx2 |-> x1 + x2, cy2 |-> y1 + y2,
      len2 |-> Hypot2(x2 - x1, y2 - y1),
      dx |-> x2 - x1, dy |-> y2 - y1 ]

\* Matter.Bodies.circle(...) of a Ball; its position lives in the ball record.
BallBody(id) ==
    [ label |-> "ball", id |-> id, cx2 |-> 0, cy2 |-> 0, len2 |-> 0, dx |-> 0, dy |-> 0 ]

\* The identity of a body constructed for line object `line`: a line's bodies
\* alternate between two identities of its own, so the new body is never the
\* body it replaces and never a body of another line.
FreshBodyId(E, line) ==
    IF line <= Len(E.lineObj) /\ E.lineObj[line].body.id = 2 * line
    THEN 2 * line + 1
    ELSE 2 * line

\* PhysicsEngine.addBody / removeBody (Matter.World.add / remove).
addBody(E, body) == [E EXCEPT !.world = @ \cup {body}]
removeBody(E, body) == [E EXCEPT !.world = @ \ {body}]

\* The fields the Line constructor and Line.updatePosition set: the endpoints
\* and a newly built body.
NewLine(E, line, x1, y1, x2, y2) ==
    [ x1 |-> x1, y1 |-> y1, x2 |-> x2, y2 |-> y2,
      body |-> LineBody(FreshBodyId(E, line), x1, y1, x2, y2) ]

\* Line.updatePosition: sets the endpoints, builds a new body and returns
\* {oldBody, newBody}; here the entity state with line object `line` updated.
updatePosition(E, line, x1, y1, x2, y2) ==
    [E EXCEPT !.lineObj[line] = NewLine(E, line, x1, y1, x2, y2)]

\* --------------------------------------------------- EntityManager.js
\* addLine without its minimum-length check.
addLineRet_NoMinimum(E, x1, y1, x2, y2) == Len(E.lineObj) + 1

\* addLine: null (0) below the minimum length, else the new line's handle.
addLineRet(E, x1, y1, x2, y2) ==
    IF Hypot2(x2 - x1, y2 - y1) < minLineLength * minLineLength
    THEN Null
    ELSE Len(E.lineObj) + 1

addLine(E, x1, y1, x2, y2) ==
    IF addLineRet(E, x1, y1, x2, y2) = Null
    THEN E
    ELSE LET obj == NewLine(E, Len(E.lineObj) + 1, x1, y1, x2, y2)
             E1 == [E EXCEPT !.lineObj = Append(@, obj),
                             !.lines = Append(@, Len(E.lineObj) + 1)]
         IN addBody(E1, obj.body)

\* removeLine that leaves the line's body in the physics world.
removeLine_KeepBody(E, line) ==
    IF line = Null THEN E
    ELSE [E EXCEPT !.lines = SeqWithout(@, line)]

removeLine(E, line) ==
    IF line = Null THEN E
    ELSE LET E1 == removeBody(E, E.lineObj[line].body)
         IN [E1 EXCEPT !.lines = SeqWithout(@, line)]

RECURSIVE clearPhysicsEntities(_, _)
\* _clearPhysicsEntities over the line array: removes every line's body.
clearPhysicsEntities(E, array) ==
    IF array = << >> THEN E
    ELSE clearPhysicsEntities(removeBody(E, E.lineObj[Head(array)].body), Tail(array))

clearLines(E) == [clearPhysicsEntities(E, E.lines) EXCEPT !.lines = << >>]

\* The body swap without the removal of the old body.
swapBodies_KeepOld(E, line, x1, y1, x2, y2) ==
    LET E1 == updatePosition(E, line, x1, y1, x2, y2)
    IN addBody(E1, E1.lineObj[line].body)

\* The body swap shared by updateLineEndpoint and updateLinePosition.
swapBodies(E, line, x1, y1, x2, y2) ==
    LET oldBody == E.lineObj[line].body
        E1 == updatePosition(E, line, x1, y1, x2, y2)
        newBody == E1.lineObj[line].body
    IN addBody(removeBody(E1, oldBody), newBody)

updateLineEndpoint(E, line, endpoint, x, y) ==
    IF endpoint = "start"
    THEN swapBodies(E, line, x, y, E.lineObj[line].x2, E.lineObj[line].y2)
    ELSE swapBodies(E, line, E.lineObj[line].x1, E.lineObj[line].y1, x, y)

updateLinePosition(E, line, x1, y1, x2, y2) == swapBodies(E, line, x1, y1, x2, y2)

\* Balls are records [id, x, y]; the ball's body carries the ball's id.
FreshBallId(E) == Min((1..(Len(E.balls) + 1)) \ { E.balls[i].id : i \in 1..Len(E.balls) })

addBall(E, x, y) ==
    LET ball == [id |-> FreshBallId(E), x |-> x, y |-> y]
    IN addBody([E EXCEPT !.balls = Append(@, ball)], BallBody(ball.id))

RECURSIVE SeqWithoutBall(_, _)
SeqWithoutBall(s, id) ==
    IF s = << >> THEN << >>
    ELSE IF Head(s).id = id THEN Tail(s)
    ELSE <<Head(s)>> \o SeqWithoutBall(Tail(s), id)

\* removeBall(ball): ball is a ball's id, or 0 for null.
removeBall(E, ball) ==
    IF ball = Null THEN E
    ELSE LET E1 == removeBody(E, BallBody(ball))
         IN [E1 EXCEPT !.balls = SeqWithoutBall(@, ball)]

clearBalls(E) ==
    [E EXCEPT !.world = @ \ { BallBody(E.balls[i].id) : i \in 1..Len(E.balls) },
              !.balls = << >>]

\* addSpawner(x, y): interval defaults to config.spawnerInterval.
addSpawner(E, x, y) ==
    LET spawner == [x |-> x, y |-> y, lastSpawn |-> 0, interval |-> spawnerIntervalMs]
    IN [E EXCEPT !.spawnerObj = Append(@, spawner),
                 !.spawners = Append(@, Len(E.spawnerObj) + 1)]

removeSpawner(E, spawner) ==
    IF spawner = Null THEN E
    ELSE [E EXCEPT !.spawners = SeqWithout(@, spawner)]

\* clearSpawners that empties the ball collection as well.
clearSpawners_AndBalls(E) == [E EXCEPT !.spawners = << >>, !.balls = << >>]

clearSpawners(E) == [E EXCEPT !.spawners = << >>]

\* findEntitiesInArea(x1, y1, x2, y2): the lines whose centre and the spawners
\* whose position lie in the area (edges included), in collection order.
findEntitiesInArea(E, x1, y1, x2, y2) ==
    LET lineIn(line) ==
            LET l == E.lineObj[line]
            IN /\ l.x1 + l.x2 >= 2 * x1 /\ l.x1 + l.x2 <= 2 * x2
               /\ l.y1 + l.y2 >= 2 * y1 /\ l.y1 + l.y2 <= 2 * y2
        spawnerIn(spawner) ==
            LET sp == E.spawnerObj[spawner]
            IN sp.x >= x1 /\ sp.x <= x2 /\ sp.y >= y1 /\ sp.y <= y2
    IN [ lines |-> SelectSeq(E.lines, lineIn), spawners |-> SelectSeq(E.spawners, spawnerIn) ]

RECURSIVE removeLines(_, _)
\* lines.forEach(line => this.removeLine(line))
removeLines(E, lines) ==
    IF lines = << >> THEN E ELSE removeLines(removeLine(E, Head(lines)), Tail(lines))

RECURSIVE removeSpawners(_, _)
\* spawners.forEach(spawner => this.removeSpawner(spawner))
removeSpawners(E, spawners) ==
    IF spawners = << >> THEN E
    ELSE removeSpawners(removeSpawner(E, Head(spawners)), Tail(spawners))

removeMultiple(E, lines, spawners) == removeSpawners(removeLines(E, lines), spawners)

RECURSIVE moveLines(_, _, _, _)
\* lines.forEach(line => this.updateLinePosition(line, line.x1 + deltaX, ...))
moveLines(E, lines, deltaX, deltaY) ==
    IF lines = << >> THEN E
    ELSE LET l == E.lineObj[Head(lines)]
         IN moveLines(updateLinePosition(E, Head(lines), l.x1 + deltaX, l.y1 + deltaY,
                                         l.x2 + deltaX, l.y2 + deltaY),
                      Tail(lines), deltaX, deltaY)

\* spawners.forEach(spawner => { spawner.x += deltaX; spawner.y += deltaY })
moveSpawners(E, spawners, deltaX, deltaY) ==
    [E EXCEPT !.spawnerObj = [ s \in 1..Len(@) |->
        LET n == Cardinality({ i \in 1..Len(spawners) : spawners[i] = s })
        IN [@[s] EXCEPT !.x = @ + n * deltaX, !.y = @ + n * deltaY] ]]

moveMultiple(E, lines, spawners, deltaX, deltaY) ==
    moveSpawners(moveLines(E, lines, deltaX, deltaY), spawners, deltaX, deltaY)

\* scaleMultiple with the subtraction of the old box's edge left out.
scaleCoord_NoOffset(v, oldMin, oldMax, newMin, newMax) ==
    LET scale == fdiv(fsub(newMax, newMin), fsub(oldMax, oldMin))
    IN fadd(newMin, fmul(v, scale))

\* scaleMultiple, one coordinate: scale = (newMax - newMin) / (oldMax - oldMin);
\* new = newMin + (old - oldMin) * scale.
scaleCoord(v, oldMin, oldMax, newMin, newMax) ==
    LET scale == fdiv(fsub(newMax, newMin), fsub(oldMax, oldMin))
    IN fadd(newMin, fmul(fsub(v, oldMin), scale))

\* scaleMultiple on one point (a line endpoint or a spawner position), X and
\* Y each with its own scale.
scalePoint(pt, oldBounds, newBounds) ==
    << scaleCoord(pt[1], oldBounds.minX, oldBounds.maxX, newBounds.minX, newBounds.maxX),
       scaleCoord(pt[2], oldBounds.minY, oldBounds.maxY, newBounds.minY, newBounds.maxY) >>


\* Where the division and the products of scaleMultiple are exact in double
\* arithmetic and give integers, a coordinate is remapped to
\* newMin + (v - oldMin) * (newSize / oldSize) exactly.
scaleExact(v, oldMin, oldMax, newMin, newMax) ==
    newMin + ((v - oldMin) * (newMax - newMin)) \div (oldMax - oldMin)

\* The scale factor is a power of two between 1/4 and 4.
DyadicScale(oldSize, newSize) ==
    /\ oldSize > 0 /\ newSize > 0
    /\ \E k \in {1, 2, 4} : newSize = k * oldSize \/ oldSize = k * newSize

\* scaleMultiple(lines, spawners, oldBounds, newBounds) stays in the integers.
scaleIsExact(E, lines, spawners, oldBounds, newBounds) ==
    LET oldW == oldBounds.maxX - oldBounds.minX
        oldH == oldBounds.maxY - oldBounds.minY
        newW == newBounds.maxX - newBounds.minX
        newH == newBounds.maxY - newBounds.minY
        xs == UNION { { E.lineObj[lines[i]].x1, E.lineObj[lines[i]].x2 } : i \in 1..Len(lines) }
                \cup { E.spawnerObj[spawners[i]].x : i \in 1..Len(spawners) }
        ys == UNION { { E.lineObj[lines[i]].y1, E.lineObj[lines[i]].y2 } : i \in 1..Len(lines) }
                \cup { E.spawnerObj[spawners[i]].y : i \in 1..Len(spawners) }
    IN /\ DyadicScale(oldW, newW) /\ DyadicScale(oldH, newH)
       /\ \A v \in xs : ((v - oldBounds.minX) * newW) % oldW = 0
       /\ \A v \in ys : ((v - oldBounds.minY) * newH) % oldH = 0

RECURSIVE scaleLines(_, _, _, _)
scaleLines(E, lines, oldBounds, newBounds) ==
    IF lines = << >> THEN E
    ELSE LET l == E.lineObj[Head(lines)]
             sx(v) == scaleExact(v, oldBounds.minX, oldBounds.maxX, newBounds.minX, newBounds.maxX)
             sy(v) == scaleExact(v, oldBounds.minY, oldBounds.maxY, newBounds.minY, newBounds.maxY)
         IN scaleLines(updateLinePosition(E, Head(lines), sx(l.x1), sy(l.y1), sx(l.x2), sy(l.y2)),
                       Tail(lines), oldBounds, newBounds)

RECURSIVE scaleSpawners(_, _, _, _)
scaleSpawners(E, spawners, oldBounds, newBounds) ==
    IF spawners = << >> THEN E
    ELSE LET sp == E.spawnerObj[Head(spawners)]
             E1 == [E EXCEPT !.spawnerObj[Head(spawners)] =
                      [@ EXCEPT !.x = scaleExact(sp.x, oldBounds.minX, oldBounds.maxX,
                                                 newBounds.minX, newBounds.maxX),
                                !.y = scaleExact(sp.y, oldBounds.minY, oldBounds.maxY,
                                                 newBounds.minY, newBounds.maxY)]]
         IN scaleSpawners(E1, Tail(spawners), oldBounds, newBounds)

\* scaleMultiple(lines, spawners, oldBounds, newBounds) on integral inputs.
scaleMultiple(E, lines, spawners, oldBounds, newBounds) ==
    scaleSpawners(scaleLines(E, lines, oldBounds, newBounds), spawners, oldBounds, newBounds)

\* --------------------------------------------------------- commands.js
\* Command objects are records carrying the fields their constructors set,
\* plus `cid`, the object's identity.
AddLineCommand(cid, x1, y1, x2, y2) ==
    [ type |-> "AddLine", cid |-> cid,
      x1 |-> x1, y1 |-> y1, x2 |-> x2, y2 |-> y2, line |-> Null ]

RemoveLineCommand(E, cid, line) ==
    [ type |-> "RemoveLine", cid |-> cid, line |-> line,
      x1 |-> E.lineObj[line].x1, y1 |-> E.lineObj[line].y1,
      x2 |-> E.lineObj[line].x2, y2 |-> E.lineObj[line].y2 ]

MoveLineEndpointCommand(E, cid, line, endpoint, newX, newY) ==
    [ type |-> "MoveLineEndpoint", cid |-> cid, line |-> line, endpoint |-> endpoint,
      newX |-> newX, newY |-> newY,
      oldX |-> IF endpoint = "start" THEN E.lineObj[line].x1 ELSE E.lineObj[line].x2,
      oldY |-> IF endpoint = "start" THEN E.lineObj[line].y1 ELSE E.lineObj[line].y2 ]

MoveLineCommand(E, cid, line, newX1, newY1, newX2, newY2) ==
    [ type |-> "MoveLine", cid |-> cid, line |-> line,
      oldX1 |-> E.lineObj[line].x1, oldY1 |-> E.lineObj[line].y1,
      oldX2 |-> E.lineObj[line].x2, oldY2 |-> E.lineObj[line].y2,
      newX1 |-> newX1, newY1 |-> newY1, newX2 |-> newX2, newY2 |-> newY2 ]

AddSpawnerCommand(cid, x, y) ==
    [ type |-> "AddSpawner", cid |-> cid, x |-> x, y |-> y, spawner |-> Null ]

RemoveSpawnerCommand(E, cid, spawner) ==
    [ type |-> "RemoveSpawner", cid |-> cid, spawner |-> spawner,
      x |-> E.spawnerObj[spawner].x, y |-> E.spawnerObj[spawner].y ]

ClearAllCommand(cid) ==
    [ type |-> "ClearAll", cid |-> cid, lineData |-> << >>, spawnerData |-> << >> ]

\* MoveMultipleCommand keeps the group and the delta accumulated over the
\* whole gesture.
MoveMultipleCommand(cid, lines, spawners, deltaX, deltaY) ==
    [ type |-> "MoveMultiple", cid |-> cid, lines |-> lines, spawners |-> spawners,
      deltaX |-> deltaX, deltaY |-> deltaY ]

\* ScaleMultipleCommand keeps the group and the original and final boxes.
ScaleMultipleCommand(cid, lines, spawners, oldBounds, newBounds) ==
    [ type |-> "ScaleMultiple", cid |-> cid, lines |-> lines, spawners |-> spawners,
      oldBounds |-> oldBounds, newBounds |-> newBounds ]

\* execute() of the two group commands: the delta is applied to the group,
\* the group is scaled from the original box to the final one.
groupExecute(E, cmd) ==
    IF cmd.type = "MoveMultiple"
    THEN [ E |-> moveMultiple(E, cmd.lines, cmd.spawners, cmd.deltaX, cmd.deltaY),
           cmd |-> cmd ]
    ELSE [ E |-> scaleMultiple(E, cmd.lines, cmd.spawners, cmd.oldBounds, cmd.newBounds),
           cmd |-> cmd ]

\* undo() of the two group commands: the negated delta is applied, the group
\* is scaled from the final box back to the original one.
groupUndo(E, cmd) ==
    IF cmd.type = "MoveMultiple"
    THEN [ E |-> moveMultiple(E, cmd.lines, cmd.spawners, 0 - cmd.deltaX, 0 - cmd.deltaY),
           cmd |-> cmd ]
    ELSE [ E |-> scaleMultiple(E, cmd.lines, cmd.spawners, cmd.newBounds, cmd.oldBounds),
           cmd |-> cmd ]

RECURSIVE addLines(_, _)
\* lineData.forEach(data => entities.addLine(data.x1, data.y1, data.x2, data.y2))
addLines(E, lineData) ==
    IF lineData = << >> THEN E
    ELSE LET d == Head(lineData)
         IN addLines(addLine(E, d[1], d[2], d[3], d[4]), Tail(lineData))

RECURSIVE addSpawners(_, _)
\* spawnerData.forEach(data => entities.addSpawner(data.x, data.y))
addSpawners(E, spawnerData) ==
    IF spawnerData = << >> THEN E
    ELSE LET d == Head(spawnerData)
         IN addSpawners(addSpawner(E, d[1], d[2]), Tail(spawnerData))

\* command.execute(): the entity state and the command object after the call.
cmdExecute(E, cmd) ==
    CASE cmd.type = "AddLine" ->
           [ E |-> addLine(E, cmd.x1, cmd.y1, cmd.x2, cmd.y2),
             cmd |-> [cmd EXCEPT !.line = addLineRet(E, cmd.x1, cmd.y1, cmd.x2, cmd.y2)] ]
      [] cmd.type = "RemoveLine" ->
           [ E |-> removeLine(E, cmd.line), cmd |-> cmd ]
      [] cmd.type = "MoveLineEndpoint" ->
           [ E |-> updateLineEndpoint(E, cmd.line, cmd.endpoint, cmd.newX, cmd.newY),
             cmd |-> cmd ]
      [] cmd.type = "MoveLine" ->
           [ E |-> updateLinePosition(E, cmd.line, cmd.newX1, cmd.newY1, cmd.newX2, cmd.newY2),
             cmd |-> cmd ]
      [] cmd.type = "AddSpawner" ->
           [ E |-> addSpawner(E, cmd.x, cmd.y),
             cmd |-> [cmd EXCEPT !.spawner = Len(E.spawnerObj) + 1] ]
      [] cmd.type = "RemoveSpawner" ->
           [ E |-> removeSpawner(E, cmd.spawner), cmd |-> cmd ]
      [] cmd.type = "ClearAll" ->
           [ E |-> clearSpawners(clearLines(E)),
             cmd |-> [cmd EXCEPT
                !.lineData = [i \in 1..Len(E.lines) |->
                    LET l == E.lineObj[E.lines[i]] IN <<l.x1, l.y1, l.x2, l.y2>>],
                !.spawnerData = [i \in 1..Len(E.spawners) |->
                    LET s == E.spawnerObj[E.spawners[i]] IN <<s.x, s.y>>]] ]
      [] cmd.type \in {"MoveMultiple", "ScaleMultiple"} -> groupExecute(E, cmd)

\* command.undo()
cmdUndo(E, cmd) ==
    CASE cmd.type = "AddLine" ->
           [ E |-> IF cmd.line # Null THEN removeLine(E, cmd.line) ELSE E, cmd |-> cmd ]
      [] cmd.type = "RemoveLine" ->
           [ E |-> addLine(E, cmd.x1, cmd.y1, cmd.x2, cmd.y2),
             cmd |-> [cmd EXCEPT !.line = addLineRet(E, cmd.x1, cmd.y1, cmd.x2, cmd.y2)] ]
      [] cmd.type = "MoveLineEndpoint" ->
           [ E |-> updateLineEndpoint(E, cmd.line, cmd.endpoint, cmd.oldX, cmd.oldY),
             cmd |-> cmd ]
      [] cmd.type = "MoveLine" ->
           [ E |-> updateLinePosition(E, cmd.line, cmd.oldX1, cmd.oldY1, cmd.oldX2, cmd.oldY2),
             cmd |-> cmd ]
      [] cmd.type = "AddSpawner" ->
           [ E |-> IF cmd.spawner # Null THEN removeSpawner(E, cmd.spawner) ELSE E,
             cmd |-> cmd ]
      [] cmd.type = "RemoveSpawner" ->
           [ E |-> addSpawner(E, cmd.x, cmd.y),
             cmd |-> [cmd EXCEPT !.spawner = Len(E.spawnerObj) + 1] ]
      [] cmd.type = "ClearAll" ->
           [ E |-> addSpawners(addLines(E, cmd.lineData), cmd.spawnerData), cmd |-> cmd ]
      [] cmd.type \in {"MoveMultiple", "ScaleMultiple"} -> groupUndo(E, cmd)

\* The command's execute (forward) or undo stays in the integers.
cmdIsExact(E, cmd, forward) ==
    cmd.type = "ScaleMultiple" =>
        IF forward
        THEN scaleIsExact(E, cmd.lines, cmd.spawners, cmd.oldBounds, cmd.newBounds)
        ELSE scaleIsExact(E, cmd.lines, cmd.spawners, cmd.newBounds, cmd.oldBounds)

\* --------------------------------------------------- CommandHistory.js
\* The identity of a newly constructed command object.
FreshCid(H) ==
    LET used == { H.undoStack[i].cid : i \in 1..Len(H.undoStack) }
                \cup { H.redoStack[i].cid : i \in 1..Len(H.redoStack) }
    IN Min((1..(Cardinality(used) + 1)) \ used)

\* execute's push that leaves the redo stack as it is.
pushCommand_KeepRedo(H, cmd) ==
    LET pushed == Append(H.undoStack, cmd)
    IN [ undoStack |-> IF Len(pushed) > maxHistorySize THEN Tail(pushed) ELSE pushed,
         redoStack |-> H.redoStack ]

\* execute: undoStack.push(command); redoStack = []; shift() when over
\* maxHistorySize.
pushCommand(H, cmd) ==
    LET pushed == Append(H.undoStack, cmd)
    IN [ undoStack |-> IF Len(pushed) > maxHistorySize THEN Tail(pushed) ELSE pushed,
         redoStack |-> << >> ]

\* CommandHistory.execute(command): the entity state and the stacks after it.
historyExecute(E, H, cmd) ==
    LET r == cmdExecute(E, cmd)
    IN [ E |-> r.E, H |-> pushCommand(H, r.cmd) ]

\* undo() that does not push the undone command onto the redo stack.
historyUndo_DropCommand(E, H) ==
    IF Len(H.undoStack) = 0 THEN [ E |-> E, H |-> H, ret |-> FALSE ]
    ELSE LET command == H.undoStack[Len(H.undoStack)]
             r == cmdUndo(E, command)
         IN [ E |-> r.E,
              H |-> [ undoStack |-> SubSeq(H.undoStack, 1, Len(H.undoStack) - 1),
                      redoStack |-> H.redoStack ],
              ret |-> TRUE ]

\* CommandHistory.undo(): also the returned boolean.
historyUndo(E, H) ==
    IF Len(H.undoStack) = 0 THEN [ E |-> E, H |-> H, ret |-> FALSE ]
    ELSE LET command == H.undoStack[Len(H.undoStack)]
             r == cmdUndo(E, command)
         IN [ E |-> r.E,
              H |-> [ undoStack |-> SubSeq(H.undoStack, 1, Len(H.undoStack) - 1),
                      redoStack |-> Append(H.redoStack, r.cmd) ],
              ret |-> TRUE ]

\* CommandHistory.redo()
historyRedo(E, H) ==
    IF Len(H.redoStack) = 0 THEN [ E |-> E, H |-> H, ret |-> FALSE ]
    ELSE LET command == H.redoStack[Len(H.redoStack)]
             r == cmdExecute(E, command)
         IN [ E |-> r.E,
              H |-> [ undoStack |-> Append(H.undoStack, r.cmd),
                      redoStack |-> SubSeq(H.redoStack, 1, Len(H.redoStack) - 1) ],
              ret |-> TRUE ]


\* ------------------------------------------------------------ scene contents
LineGeo(E, line) ==
    <<E.lineObj[line].x1, E.lineObj[line].y1, E.lineObj[line].x2, E.lineObj[line].y2>>

SpawnerPos(E, spawner) == <<E.spawnerObj[spawner].x, E.spawnerObj[spawner].y>>

\* The line and spawner collections as multisets of geometry (identity dropped).
Contents(E) ==
    [ lines |-> [ g \in { LineGeo(E, E.lines[i]) : i \in 1..Len(E.lines) } |->
                    Cardinality({ i \in 1..Len(E.lines) : LineGeo(E, E.lines[i]) = g }) ],
      spawners |-> [ g \in { SpawnerPos(E, E.spawners[i]) : i \in 1..Len(E.spawners) } |->
                    Cardinality({ i \in 1..Len(E.spawners) : SpawnerPos(E, E.spawners[i]) = g }) ] ]

NoContents == [ lines |-> << >>, spawners |-> << >> ]

\* The coordinates of a group of line and spawner objects, member by member.
GroupGeo(E, lines, spawners) ==
    [ lines |-> [ i \in 1..Len(lines) |-> LineGeo(E, lines[i]) ],
      spawners |-> [ i \in 1..Len(spawners) |-> SpawnerPos(E, spawners[i]) ] ]

\* A group's coordinates shifted by (dx, dy).
Shifted(geo, dx, dy) ==
    [ lines |-> [ i \in 1..Len(geo.lines) |->
                    << geo.lines[i][1] + dx, geo.lines[i][2] + dy,
                       geo.lines[i][3] + dx, geo.lines[i][4] + dy >> ],
      spawners |-> [ i \in 1..Len(geo.spawners) |->
                       << geo.spawners[i][1] + dx, geo.spawners[i][2] + dy >> ] ]


\* --------------------------------------------------------------- initial state
\* new EntityManager(physics), new CommandHistory(): everything empty.
InitEntities ==
    [ lines |-> << >>, balls |-> << >>, spawners |-> << >>, world |-> {},
      lineObj |-> << >>, spawnerObj |-> << >> ]

InitHistory == [ undoStack |-> << >>, redoStack |-> << >> ]

\* What a press that starts a drag notes: the coordinates of what the drag
\* moves, and the history.
NoOrigin == [ geo |-> [ lines |-> << >>, spawners |-> << >> ], H |-> InitHistory ]

NoRun == [ phase |-> "none", n |-> 0, k |-> 0, start |-> NoContents, preUndo |-> NoContents ]

\* op: the operation; ok: its boolean result; ret: the handle it returned;
\* args: the arguments it was called with.
Op(op, ok, ret, args) == [ op |-> op, ok |-> ok, ret |-> ret, args |-> args ]

\* InteractionController's constructor.
InitDrawing == [ active |-> FALSE, x1 |-> 0, y1 |-> 0, x2 |-> 0, y2 |-> 0 ]

NoBounds == [ set |-> FALSE, minX |-> 0, minY |-> 0, maxX |-> 0, maxY |-> 0 ]

InitDragging ==
    [ active |-> FALSE, line |-> Null, endpoint |-> "none", type |-> "none",
      offsetX2 |-> 0, offsetY2 |-> 0,
      startX |-> 0, startY |-> 0, initialBounds |-> NoBounds, resizeHandle |-> "none",
      initialX1 |-> 0, initialY1 |-> 0, initialX2 |-> 0, initialY2 |-> 0,
      totalDeltaX |-> 0, totalDeltaY |-> 0, originalBounds |-> NoBounds ]

\* UIManager's constructor.
NoEndpoint == [ line |-> Null, endpoint |-> "none" ]
NoButton == [ set |-> FALSE, x |-> 0, y |-> 0, width |-> 0, height |-> 0 ]

InitUI ==
    [ hovered |-> [ line |-> Null, spawner |-> Null, endpoint |-> NoEndpoint ],
      selected |-> [ line |-> Null, lines |-> << >>, spawners |-> << >> ],
      areaSelection |-> [ active |-> FALSE, x1 |-> 0, y1 |-> 0, x2 |-> 0, y2 |-> 0 ],
      multiSelectionBounds |-> NoBounds,
      resizeHandle |-> "none",
      deleteButton |-> NoButton,
      helpIcon |-> FALSE,
      help |-> [ visible |-> TRUE ] ]

\* InputController's constructor.
InitMouse == [ x |-> 0, y |-> 0, isDown |-> FALSE, downX |-> 0, downY |-> 0 ]

\* The welcome screen: UIManager's constructor in the revision that has one
\* (InitWelcome), and the state once it has been dismissed, which is also
\* that of the revision without one (NoWelcome).
InitWelcome ==
    [ isActive |-> TRUE, clickedToStart |-> FALSE, ballsFalling |-> FALSE,
      ballsFallTime |-> 0, ballsCreated |-> FALSE,
      balls |-> << >>, lines |-> << >> ]

NoWelcome == [InitWelcome EXCEPT !.isActive = FALSE, !.clickedToStart = TRUE, !.ballsCreated = TRUE]

InitScene ==
    /\ entities = InitEntities
    /\ history = InitHistory
    /\ last = Op("init", TRUE, 0, << >>)
    /\ run = NoRun
    /\ drawing = InitDrawing
    /\ dragging = InitDragging
    /\ ui = InitUI
    /\ shiftPressed = FALSE
    /\ origin = NoOrigin
    /\ mouse = InitMouse
    /\ isPaused = FALSE
    /\ events = 0
    /\ clock = 0
    /\ births = << >>
    /\ accumulator = 0
    /\ timers = [ downTime |-> 0, lastBallSpray |-> 0 ]

Init == InitScene /\ welcome = NoWelcome

\* The object bounds: no more Line / Spawner objects than the model holds.
WithinBounds(E) ==
    /\ Len(E.lineObj) <= MaxLineObjs
    /\ Len(E.spawnerObj) <= MaxSpawnerObjs
    /\ Len(E.balls) <= MaxBalls

\* ------------------------------------------------ InteractionController.js
\* Line.distanceToPoint(x, y) < threshold on a line object l, in integers:
\* squared distances, the projection parameter t clamped to [0, 1].
distanceToPointBelow(l, x, y, threshold) ==
    LET dx == l.x2 - l.x1
        dy == l.y2 - l.y1
        lengthSq == dx * dx + dy * dy
        num == (x - l.x1) * dx + (y - l.y1) * dy
        cross == (x - l.x1) * dy - (y - l.y1) * dx
    IN IF lengthSq = 0 \/ num <= 0 THEN Hypot2(x - l.x1, y - l.y1) < threshold * threshold
       ELSE IF num >= lengthSq THEN Hypot2(x - l.x2, y - l.y2) < threshold * threshold
       ELSE cross * cross < threshold * threshold * lengthSq

\* Line.distanceToEndpoint(x, y, endpoint) < threshold.
distanceToEndpointBelow(l, x, y, endpoint, threshold) ==
    IF endpoint = "start"
    THEN Hypot2(x - l.x1, y - l.y1) < threshold * threshold
    ELSE Hypot2(x - l.x2, y - l.y2) < threshold * threshold

\* The first line of the collection closer than threshold, else null.
findNearestLine(E, x, y, threshold) ==
    LET hits == { i \in 1..Len(E.lines) :
                    distanceToPointBelow(E.lineObj[E.lines[i]], x, y, threshold) }
    IN IF hits = {} THEN Null ELSE E.lines[Min(hits)]

\* The first line with an endpoint closer than threshold, start before end.
findNearestEndpoint(E, x, y, threshold) ==
    LET near(i, e) == distanceToEndpointBelow(E.lineObj[E.lines[i]], x, y, e, threshold)
        hits == { i \in 1..Len(E.lines) : near(i, "start") \/ near(i, "end") }
    IN IF hits = {} THEN NoEndpoint
       ELSE [ line |-> E.lines[Min(hits)],
              endpoint |-> IF near(Min(hits), "start") THEN "start" ELSE "end" ]

\* The spawner nearest to (x, y) among those within the threshold.
findNearestSpawner_Closest(E, x, y, threshold) ==
    LET d(s) == Hypot2(E.spawnerObj[s].x - x, E.spawnerObj[s].y - y)
        hits == { s \in SeqToSet(E.spawners) : d(s) < threshold * threshold }
    IN IF hits = {} THEN Null
       ELSE CHOOSE s \in hits : \A o \in hits : d(s) <= d(o)

findNearestSpawner(E, x, y, threshold) ==
    LET hits == { i \in 1..Len(E.spawners) :
                    Hypot2(E.spawnerObj[E.spawners[i]].x - x, E.spawnerObj[E.spawners[i]].y - y)
                      < threshold * threshold }
    IN IF hits = {} THEN Null ELSE E.spawners[Min(hits)]

\* UIManager. The delete button's bounds are kept doubled (see render).
selectLine(u, line) == [u EXCEPT !.selected.line = line]
deselectLine(u) == [u EXCEPT !.selected.line = Null, !.deleteButton = NoButton]

isPointInDeleteButton(u, x, y) ==
    /\ u.deleteButton.set
    /\ 2 * x >= u.deleteButton.x /\ 2 * x <= u.deleteButton.x + u.deleteButton.width
    /\ 2 * y >= u.deleteButton.y /\ 2 * y <= u.deleteButton.y + u.deleteButton.height

selectMultiple(u, lines, spawners) ==
    [u EXCEPT !.selected.lines = lines, !.selected.spawners = spawners]

deselectMultiple(u) == [u EXCEPT !.selected.lines = << >>, !.selected.spawners = << >>]

hasMultipleSelection(u) == Len(u.selected.lines) > 0 \/ Len(u.selected.spawners) > 0

startAreaSelection(u, x, y) ==
    [u EXCEPT !.areaSelection = [ active |-> TRUE, x1 |-> x, y1 |-> y, x2 |-> x, y2 |-> y ]]

updateAreaSelection(u, x, y) ==
    IF ~u.areaSelection.active THEN u
    ELSE [u EXCEPT !.areaSelection.x2 = x, !.areaSelection.y2 = y]

finishAreaSelection(u) == [u EXCEPT !.areaSelection.active = FALSE]

\* The area as it was dragged, its corners not put in order.
getAreaSelectionBounds_AsDragged(u) ==
    [ x1 |-> u.areaSelection.x1, y1 |-> u.areaSelection.y1,
      x2 |-> u.areaSelection.x2, y2 |-> u.areaSelection.y2 ]

getAreaSelectionBounds(u) ==
    LET a == u.areaSelection
    IN [ x1 |-> Min({a.x1, a.x2}), y1 |-> Min({a.y1, a.y2}),
         x2 |-> Max({a.x1, a.x2}), y2 |-> Max({a.y1, a.y2}) ]

\* The eight resize handles drawMultiSelection puts on the box, in its order;
\* their positions are kept doubled.
Handles(b) ==
    << [ x2 |-> 2 * b.minX,       y2 |-> 2 * b.minY,       position |-> "tl" ],
       [ x2 |-> b.minX + b.maxX,  y2 |-> 2 * b.minY,       position |-> "t" ],
       [ x2 |-> 2 * b.maxX,       y2 |-> 2 * b.minY,       position |-> "tr" ],
       [ x2 |-> 2 * b.maxX,       y2 |-> b.minY + b.maxY,  position |-> "r" ],
       [ x2 |-> 2 * b.maxX,       y2 |-> 2 * b.maxY,       position |-> "br" ],
       [ x2 |-> b.minX + b.maxX,  y2 |-> 2 * b.maxY,       position |-> "b" ],
       [ x2 |-> 2 * b.minX,       y2 |-> 2 * b.maxY,       position |-> "bl" ],
       [ x2 |-> 2 * b.minX,       y2 |-> b.minY + b.maxY,  position |-> "l" ] >>

\* The first handle closer than handleSize to (x, y), else null ("none").
findResizeHandle(u, x, y) ==
    IF ~u.multiSelectionBounds.set THEN "none"
    ELSE LET h == Handles(u.multiSelectionBounds)
             hits == { i \in 1..Len(h) :
                         Hypot2(2 * x - h[i].x2, 2 * y - h[i].y2)
                           < 4 * handleSize * handleSize }
         IN IF hits = {} THEN "none" ELSE h[Min(hits)].position

\* The help icon is the circle inscribed in the bounds drawStats returns,
\* below the stats panel's left corner.
isPointInHelpIcon(u, x, y) ==
    /\ u.helpIcon
    /\ LET iconX == screenWidth - statsPadding - statsPanelWidth + helpIconPadding
           iconY == statsPadding + statsPanelHeight + helpIconPadding
       IN 4 * Hypot2(x - iconX, y - iconY) - 4 * helpIconSize * ((x - iconX) + (y - iconY))
            + 2 * helpIconSize * helpIconSize <= helpIconSize * helpIconSize

toggleHelp(u) == [u EXCEPT !.help.visible = ~@]

isMouseOverUI(u, x, y) ==
    isPointInDeleteButton(u, x, y) \/ u.hovered.line # Null \/ u.hovered.spawner # Null

\* The controller's state as one record S: the entity manager E, the history
\* H, and the controller's drawing, dragging, ui and shiftPressed.
Ctl ==
    [ E |-> entities, H |-> history, drawing |-> drawing, dragging |-> dragging, ui |-> ui,
      shiftPressed |-> shiftPressed, origin |-> origin ]

\* history.execute(cmd) from a handler.
ctlExecute(S, cmd) ==
    LET r == historyExecute(S.E, S.H, cmd)
    IN [S EXCEPT !.E = r.E, !.H = r.H]

\* The branch taken if Shift were looked at only where area selection and
\* drawing part.
downBranch_ModifierLast(S, x, y) ==
    IF isPointInHelpIcon(S.ui, x, y) THEN "help"
    ELSE IF isPointInDeleteButton(S.ui, x, y) THEN "delete"
    ELSE IF S.ui.hovered.spawner # Null THEN "spawner"
    ELSE IF hasMultipleSelection(S.ui) /\ findResizeHandle(S.ui, x, y) # "none"
    THEN "resize"
    ELSE IF /\ hasMultipleSelection(S.ui)
            /\ S.ui.multiSelectionBounds.set
            /\ x >= S.ui.multiSelectionBounds.minX /\ x <= S.ui.multiSelectionBounds.maxX
            /\ y >= S.ui.multiSelectionBounds.minY /\ y <= S.ui.multiSelectionBounds.maxY
    THEN "multiple"
    ELSE IF S.ui.hovered.endpoint # NoEndpoint THEN "endpoint"
    ELSE IF S.ui.hovered.line # Null THEN "line"
    ELSE IF S.shiftPressed THEN "area"
    ELSE "draw"

\* The branch of handleMouseDown(pos) that a press at (x, y) takes: the first
\* of its tests that succeeds. The welcome screen has been dismissed.
downBranch(S, x, y) ==
    IF isPointInHelpIcon(S.ui, x, y) THEN "help"
    ELSE IF isPointInDeleteButton(S.ui, x, y) THEN "delete"
    ELSE IF S.ui.hovered.spawner # Null /\ ~S.shiftPressed THEN "spawner"
    ELSE IF /\ hasMultipleSelection(S.ui) /\ ~S.shiftPressed
            /\ findResizeHandle(S.ui, x, y) # "none"
    THEN "resize"
    ELSE IF /\ hasMultipleSelection(S.ui) /\ ~S.shiftPressed
            /\ S.ui.multiSelectionBounds.set
            /\ x >= S.ui.multiSelectionBounds.minX /\ x <= S.ui.multiSelectionBounds.maxX
            /\ y >= S.ui.multiSelectionBounds.minY /\ y <= S.ui.multiSelectionBounds.maxY
    THEN "multiple"
    ELSE IF S.ui.hovered.endpoint # NoEndpoint /\ ~S.shiftPressed THEN "endpoint"
    ELSE IF S.ui.hovered.line # Null /\ ~S.shiftPressed THEN "line"
    ELSE IF S.shiftPressed THEN "area"
    ELSE "draw"

\* handleMouseDown(pos): what the branch taken does.
handleMouseDown(S, x, y) ==
    LET branch == downBranch(S, x, y)
    IN IF branch = "help"
    THEN [S EXCEPT !.ui = toggleHelp(S.ui)]
    ELSE IF branch = "delete"
    THEN LET line == S.ui.selected.line
             S1 == IF line # Null
                   THEN ctlExecute(S, RemoveLineCommand(S.E, FreshCid(S.H), line))
                   ELSE S
             multi == hasMultipleSelection(S.ui)
             S2 == [S1 EXCEPT !.E = IF multi
                                    THEN removeMultiple(@, S.ui.selected.lines,
                                                        S.ui.selected.spawners)
                                    ELSE @,
                              !.ui = IF multi THEN deselectMultiple(@) ELSE @]
         IN [S2 EXCEPT !.ui = deselectLine(@)]
    ELSE IF branch = "spawner"
    THEN LET S1 == ctlExecute(S, RemoveSpawnerCommand(S.E, FreshCid(S.H), S.ui.hovered.spawner))
         IN [S1 EXCEPT !.ui.hovered.spawner = Null]
    ELSE IF branch = "resize"
    THEN [S EXCEPT !.dragging.active = TRUE,
                   !.dragging.type = "resize",
                   !.dragging.resizeHandle = findResizeHandle(S.ui, x, y),
                   !.dragging.startX = x, !.dragging.startY = y,
                   !.dragging.initialBounds = S.ui.multiSelectionBounds,
                   !.dragging.originalBounds = S.ui.multiSelectionBounds]
    ELSE IF branch = "multiple"
    THEN [S EXCEPT !.dragging.active = TRUE,
                   !.dragging.type = "multiple",
                   !.dragging.startX = x, !.dragging.startY = y,
                   !.dragging.totalDeltaX = 0, !.dragging.totalDeltaY = 0]
    ELSE IF branch = "endpoint"
    THEN LET l == S.E.lineObj[S.ui.hovered.endpoint.line]
         IN [S EXCEPT !.dragging.active = TRUE,
                      !.dragging.type = "endpoint",
                      !.dragging.line = S.ui.hovered.endpoint.line,
                      !.dragging.endpoint = S.ui.hovered.endpoint.endpoint,
                      !.dragging.initialX1 = l.x1, !.dragging.initialY1 = l.y1,
                      !.dragging.initialX2 = l.x2, !.dragging.initialY2 = l.y2]
    ELSE IF branch = "line"
    THEN LET line == S.ui.hovered.line
             l == S.E.lineObj[line]
         IN [S EXCEPT !.dragging.active = TRUE,
                      !.dragging.type = "line",
                      !.dragging.line = line,
                      !.dragging.initialX1 = l.x1, !.dragging.initialY1 = l.y1,
                      !.dragging.initialX2 = l.x2, !.dragging.initialY2 = l.y2,
                      !.dragging.offsetX2 = (l.x1 + l.x2) - 2 * x,
                      !.dragging.offsetY2 = (l.y1 + l.y2) - 2 * y,
                      !.ui = selectLine(S.ui, line)]
    ELSE IF branch = "area"
    THEN [S EXCEPT !.ui = startAreaSelection(deselectMultiple(deselectLine(S.ui)), x, y)]
    ELSE [S EXCEPT !.ui = deselectMultiple(deselectLine(S.ui)),
                   !.drawing = [ active |-> TRUE, x1 |-> x, y1 |-> y, x2 |-> x, y2 |-> y ]]

updateHoverStates(S, x, y) ==
    LET sel == S.ui.selected.line # Null
        handle == findResizeHandle(S.ui, x, y)
        S1 == IF hasMultipleSelection(S.ui) THEN [S EXCEPT !.ui.resizeHandle = handle] ELSE S
    IN IF hasMultipleSelection(S.ui) /\ handle # "none" THEN S1
       ELSE [S1 EXCEPT
                 !.ui.hovered.line =
                     IF sel THEN Null ELSE findNearestLine(S.E, x, y, lineHoverThreshold),
                 !.ui.hovered.spawner = findNearestSpawner(S.E, x, y, spawnerHoverThreshold),
                 !.ui.hovered.endpoint =
                     IF sel THEN NoEndpoint
                     ELSE findNearestEndpoint(S.E, x, y, endpointHoverThreshold)]

\* The doubled delta of a whole-line drag to pointer (x, y): twice
\* (pos + offset) - (current centre).
dragDelta2(S, x, y) ==
    LET l == S.E.lineObj[S.dragging.line]
    IN << 2 * x + S.dragging.offsetX2 - (l.x1 + l.x2),
          2 * y + S.dragging.offsetY2 - (l.y1 + l.y2) >>

\* The box a resize drag to (x, y) asks for: only the edges named by the
\* handle's position letters follow the pointer.
resizedBounds(S, x, y) ==
    LET g == S.dragging
        deltaX == x - g.startX
        deltaY == y - g.startY
        b == g.initialBounds
    IN [ b EXCEPT !.minX = IF g.resizeHandle \in {"tl", "bl", "l"} THEN @ + deltaX ELSE @,
                  !.maxX = IF g.resizeHandle \in {"tr", "br", "r"} THEN @ + deltaX ELSE @,
                  !.minY = IF g.resizeHandle \in {"tl", "t", "tr"} THEN @ + deltaY ELSE @,
                  !.maxY = IF g.resizeHandle \in {"br", "b", "bl"} THEN @ + deltaY ELSE @ ]

\* The multi-selection drag step that keeps only the last delta.
dragMultiple_LastDelta(S, x, y) ==
    LET deltaX == x - S.dragging.startX
        deltaY == y - S.dragging.startY
    IN [S EXCEPT !.E = moveMultiple(S.E, S.ui.selected.lines, S.ui.selected.spawners,
                                    deltaX, deltaY),
                 !.dragging.totalDeltaX = deltaX,
                 !.dragging.totalDeltaY = deltaY,
                 !.dragging.startX = x, !.dragging.startY = y]

\* handleMouseMove, type 'multiple': the group moves by the pointer's delta
\* since the last event, which is added to the gesture's total.
dragMultiple(S, x, y) ==
    LET deltaX == x - S.dragging.startX
        deltaY == y - S.dragging.startY
    IN [S EXCEPT !.E = moveMultiple(S.E, S.ui.selected.lines, S.ui.selected.spawners,
                                    deltaX, deltaY),
                 !.dragging.totalDeltaX = @ + deltaX,
                 !.dragging.totalDeltaY = @ + deltaY,
                 !.dragging.startX = x, !.dragging.startY = y]

\* The applied resize that keeps the reference bounds of the pointer-down.
resizeTo_KeepReference(S, x, y, newBounds) ==
    [S EXCEPT !.E = scaleMultiple(S.E, S.ui.selected.lines, S.ui.selected.spawners,
                                  S.dragging.initialBounds, newBounds),
              !.dragging.startX = x, !.dragging.startY = y]

\* The applied resize: the group is scaled from the drag's reference bounds
\* to the new ones, which become the reference of the next move.
resizeTo(S, x, y, newBounds) ==
    [S EXCEPT !.E = scaleMultiple(S.E, S.ui.selected.lines, S.ui.selected.spawners,
                                  S.dragging.initialBounds, newBounds),
              !.dragging.startX = x, !.dragging.startY = y,
              !.dragging.initialBounds = newBounds]

\* The resize step without its minimum-size test.
dragResize_NoMinimum(S, x, y) == resizeTo(S, x, y, resizedBounds(S, x, y))

\* handleMouseMove, type 'resize': a box narrower or lower than the minimum
\* is refused before anything is scaled.
dragResize(S, x, y) ==
    IF \/ resizedBounds(S, x, y).maxX - resizedBounds(S, x, y).minX < minResizeSize
       \/ resizedBounds(S, x, y).maxY - resizedBounds(S, x, y).minY < minResizeSize
    THEN S
    ELSE resizeTo(S, x, y, resizedBounds(S, x, y))

handleMouseMove(S, x, y) ==
    IF S.ui.areaSelection.active
    THEN [S EXCEPT !.ui = updateAreaSelection(S.ui, x, y)]
    ELSE IF S.dragging.active
    THEN IF S.dragging.type = "endpoint"
         THEN [S EXCEPT !.E = updateLineEndpoint(S.E, S.dragging.line, S.dragging.endpoint, x, y)]
         ELSE IF S.dragging.type = "line"
         THEN LET l == S.E.lineObj[S.dragging.line]
                  deltaX == dragDelta2(S, x, y)[1] \div 2
                  deltaY == dragDelta2(S, x, y)[2] \div 2
              IN [S EXCEPT !.E = updateLinePosition(S.E, S.dragging.line,
                                     l.x1 + deltaX, l.y1 + deltaY, l.x2 + deltaX, l.y2 + deltaY)]
         ELSE IF S.dragging.type = "multiple"
         THEN dragMultiple(S, x, y)
         ELSE IF S.dragging.type = "resize"
         THEN dragResize(S, x, y)
         ELSE S
    ELSE IF S.drawing.active
    THEN [S EXCEPT !.drawing.x2 = x, !.drawing.y2 = y]
    ELSE updateHoverStates(S, x, y)

finishDrawing(S) ==
    LET d == S.drawing
        S1 == ctlExecute(S, AddLineCommand(FreshCid(S.H), d.x1, d.y1, d.x2, d.y2))
    IN [S1 EXCEPT !.drawing.active = FALSE]

\* The command a finished single-line drag builds: constructed from the
\* line's current coordinates, its old position overridden with the one
\* stored at pointer-down.
dragCommand(S) ==
    LET g == S.dragging
        l == S.E.lineObj[g.line]
        cid == FreshCid(S.H)
    IN IF g.type = "endpoint"
       THEN [ MoveLineEndpointCommand(S.E, cid, g.line, g.endpoint,
                                      IF g.endpoint = "start" THEN l.x1 ELSE l.x2,
                                      IF g.endpoint = "start" THEN l.y1 ELSE l.y2)
              EXCEPT !.oldX = IF g.endpoint = "start" THEN g.initialX1 ELSE g.initialX2,
                     !.oldY = IF g.endpoint = "start" THEN g.initialY1 ELSE g.initialY2 ]
       ELSE [ MoveLineCommand(S.E, cid, g.line, l.x1, l.y1, l.x2, l.y2)
              EXCEPT !.oldX1 = g.initialX1, !.oldY1 = g.initialY1,
                     !.oldX2 = g.initialX2, !.oldY2 = g.initialY2 ]

\* The drag push without the max-history enforcement.
dragPush_NoShift(H, cmd) ==
    [ undoStack |-> Append(H.undoStack, cmd), redoStack |-> << >> ]

\* handleMouseUp's own push of the drag command: undoStack.push(cmd);
\* redoStack = []; shift() when over maxHistorySize.
dragPush(H, cmd) ==
    LET pushed == Append(H.undoStack, cmd)
    IN [ undoStack |-> IF Len(pushed) > maxHistorySize THEN Tail(pushed) ELSE pushed,
         redoStack |-> << >> ]

dragMoved(S) ==
    LET g == S.dragging
        l == S.E.lineObj[g.line]
    IN <<l.x1, l.y1, l.x2, l.y2>> # <<g.initialX1, g.initialY1, g.initialX2, g.initialY2>>

\* Math.abs(totalDeltaX) > 0.1 || Math.abs(totalDeltaY) > 0.1, on integers.
multiMoved(S) == S.dragging.totalDeltaX # 0 \/ S.dragging.totalDeltaY # 0

\* Whether handleMouseUp builds a command for the drag it ends: for a moved
\* group, for every resize, and for a single line whose coordinates changed.
dragBuilds(S) ==
    IF S.dragging.type = "multiple" THEN multiMoved(S)
    ELSE IF S.dragging.type = "resize" THEN TRUE
    ELSE dragMoved(S)

\* The command it builds.
dragBuilt(S) ==
    IF S.dragging.type = "multiple"
    THEN MoveMultipleCommand(FreshCid(S.H), S.ui.selected.lines, S.ui.selected.spawners,
                             S.dragging.totalDeltaX, S.dragging.totalDeltaY)
    ELSE IF S.dragging.type = "resize"
    THEN ScaleMultipleCommand(FreshCid(S.H), S.ui.selected.lines, S.ui.selected.spawners,
                              S.dragging.originalBounds, S.dragging.initialBounds)
    ELSE dragCommand(S)

\* event: [x, y, downX, downY, isClick, isHold].
handleMouseUp(S, event) ==
    IF S.ui.areaSelection.active
    THEN LET bounds == getAreaSelectionBounds(S.ui)
             selected == findEntitiesInArea(S.E, bounds.x1, bounds.y1, bounds.x2, bounds.y2)
             u1 == IF Len(selected.lines) > 0 \/ Len(selected.spawners) > 0
                   THEN selectMultiple(S.ui, selected.lines, selected.spawners)
                   ELSE S.ui
         IN [S EXCEPT !.ui = finishAreaSelection(u1)]
    ELSE IF S.dragging.active
    THEN LET S1 == IF dragBuilds(S)
                   THEN [S EXCEPT !.H = dragPush(S.H, dragBuilt(S))]
                   ELSE S
         IN [S1 EXCEPT !.dragging.active = FALSE, !.dragging.line = Null,
                       !.dragging.endpoint = "none", !.dragging.type = "none",
                       !.dragging.offsetX2 = 0, !.dragging.offsetY2 = 0,
                       !.dragging.startX = 0, !.dragging.startY = 0,
                       !.dragging.initialBounds = NoBounds,
                       !.dragging.resizeHandle = "none",
                       !.dragging.totalDeltaX = 0, !.dragging.totalDeltaY = 0,
                       !.dragging.originalBounds = NoBounds]
    ELSE IF /\ S.drawing.active
            /\ Hypot2(S.drawing.x2 - S.drawing.x1, S.drawing.y2 - S.drawing.y1)
                 > minDragDistance * minDragDistance
    THEN finishDrawing(S)
    ELSE LET S1 == [S EXCEPT !.drawing.active = FALSE]
         IN IF isMouseOverUI(S1.ui, event.downX, event.downY) THEN S1
            ELSE IF event.isHold
            THEN ctlExecute(S1, AddSpawnerCommand(FreshCid(S1.H), event.x, event.y))
            ELSE IF event.isClick
            THEN [S1 EXCEPT !.E = addBall(S1.E, event.x, event.y)]
            ELSE S1

clearLinesAndSpawners(S) == ctlExecute(S, ClearAllCommand(FreshCid(S.H)))

\* handleDeleteKey that clears everything after removing a multi-selection.
handleDeleteKey_ThenClear(S) ==
    IF hasMultipleSelection(S.ui)
    THEN clearLinesAndSpawners(
             [S EXCEPT !.E = removeMultiple(S.E, S.ui.selected.lines, S.ui.selected.spawners),
                       !.ui = deselectMultiple(S.ui)])
    ELSE IF S.ui.selected.line # Null
    THEN LET S1 == ctlExecute(S, RemoveLineCommand(S.E, FreshCid(S.H), S.ui.selected.line))
         IN [S1 EXCEPT !.ui = deselectLine(S.ui)]
    ELSE clearLinesAndSpawners(S)

handleDeleteKey(S) ==
    IF hasMultipleSelection(S.ui)
    THEN [S EXCEPT !.E = removeMultiple(S.E, S.ui.selected.lines, S.ui.selected.spawners),
                   !.ui = deselectMultiple(S.ui)]
    ELSE IF S.ui.selected.line # Null
    THEN LET S1 == ctlExecute(S, RemoveLineCommand(S.E, FreshCid(S.H), S.ui.selected.line))
         IN [S1 EXCEPT !.ui = deselectLine(S.ui)]
    ELSE clearLinesAndSpawners(S)

\* drawMultiSelection's box: around the selected lines' endpoints and the
\* selected spawners' +-20 squares, padded by 20; null for an empty group.
drawMultiSelection(E, lines, spawners) ==
    LET xs == UNION { { E.lineObj[lines[i]].x1, E.lineObj[lines[i]].x2 } : i \in 1..Len(lines) }
                \cup UNION { { E.spawnerObj[spawners[i]].x - spawnerBoxHalf,
                                E.spawnerObj[spawners[i]].x + spawnerBoxHalf } :
                              i \in 1..Len(spawners) }
        ys == UNION { { E.lineObj[lines[i]].y1, E.lineObj[lines[i]].y2 } : i \in 1..Len(lines) }
                \cup UNION { { E.spawnerObj[spawners[i]].y - spawnerBoxHalf,
                                E.spawnerObj[spawners[i]].y + spawnerBoxHalf } :
                              i \in 1..Len(spawners) }
    IN IF xs = {} THEN NoBounds
       ELSE [ set |-> TRUE,
              minX |-> Min(xs) - multiSelectionPadding, minY |-> Min(ys) - multiSelectionPadding,
              maxX |-> Max(xs) + multiSelectionPadding, maxY |-> Max(ys) + multiSelectionPadding ]

\* game.js render(): the multi-selection's box and handles are refreshed; the
\* delete button sits above the box of a multi-selection, else on the
\* selected line's midpoint (bounds x - 50, y - 50, 100 x 40 of
\* drawDeleteButton, here doubled); the help icon's bounds are set with the
\* stats panel.
render(S) ==
    LET b == IF hasMultipleSelection(S.ui)
             THEN drawMultiSelection(S.E, S.ui.selected.lines, S.ui.selected.spawners)
             ELSE NoBounds
        button(cx2, cy2) ==
            [ set |-> TRUE,
              x |-> cx2 - deleteButtonWidth,
              y |-> cy2 - 2 * deleteButtonOffset,
              width |-> 2 * deleteButtonWidth, height |-> 2 * deleteButtonHeight ]
    IN [S EXCEPT !.ui.multiSelectionBounds = b,
                 !.ui.deleteButton =
                     IF hasMultipleSelection(S.ui) /\ b.set
                     THEN button(b.minX + b.maxX, 2 * (b.minY - multiDeleteButtonLift))
                     ELSE IF S.ui.selected.line # Null
                     THEN LET l == S.E.lineObj[S.ui.selected.line]
                          IN button(l.x1 + l.x2, l.y1 + l.y2)
                     ELSE NoButton,
                 !.ui.helpIcon = TRUE]

\* ------------------------------------------- EntityManager called directly
Direct(E, op) ==
    /\ WithinBounds(E)
    /\ entities' = E
    /\ last' = op
    /\ run' = NoRun
    /\ UNCHANGED <<history, ctlVars, timeVars, timers>>

AddLine ==
    \E s \in SegInputs :
        Direct(addLine(entities, s[1], s[2], s[3], s[4]),
               Op("addLine", TRUE, addLineRet(entities, s[1], s[2], s[3], s[4]), s))

RemoveLine ==
    \E line \in 0..Len(entities.lineObj) :
        Direct(removeLine(entities, line), Op("removeLine", TRUE, 0, <<line>>))

UpdateLineEndpoint ==
    \E line \in 1..Len(entities.lineObj), endpoint \in {"start", "end"}, p \in PtInputs :
        Direct(updateLineEndpoint(entities, line, endpoint, p[1], p[2]),
               Op("updateLineEndpoint", TRUE, 0, <<line, endpoint, p[1], p[2]>>))

UpdateLinePosition ==
    \E line \in 1..Len(entities.lineObj), s \in SegInputs :
        Direct(updateLinePosition(entities, line, s[1], s[2], s[3], s[4]),
               Op("updateLinePosition", TRUE, 0, <<line, s[1], s[2], s[3], s[4]>>))

AddBall ==
    \E p \in PtInputs :
        Direct(addBall(entities, p[1], p[2]), Op("addBall", TRUE, FreshBallId(entities), p))

RemoveBall ==
    \E ball \in 0..(MaxBalls + 1) :
        Direct(removeBall(entities, ball), Op("removeBall", TRUE, 0, <<ball>>))

AddSpawner ==
    \E p \in PtInputs :
        Direct(addSpawner(entities, p[1], p[2]),
               Op("addSpawner", TRUE, Len(entities.spawnerObj) + 1, p))

RemoveSpawner ==
    \E spawner \in 0..Len(entities.spawnerObj) :
        Direct(removeSpawner(entities, spawner), Op("removeSpawner", TRUE, 0, <<spawner>>))

\* ------------------------------------------- CommandHistory called directly
\* The commands a caller can construct in the current scene, targeting any
\* entity of the collections.
NewCommands(E, cid) ==
    { AddLineCommand(cid, s[1], s[2], s[3], s[4]) : s \in SegInputs }
    \cup { RemoveLineCommand(E, cid, line) : line \in SeqToSet(E.lines) }
    \cup { MoveLineEndpointCommand(E, cid, x[1], x[2], x[3][1], x[3][2]) :
             x \in SeqToSet(E.lines) \X {"start", "end"} \X PtInputs }
    \cup { MoveLineCommand(E, cid, x[1], x[2][1], x[2][2], x[2][3], x[2][4]) :
             x \in SeqToSet(E.lines) \X SegInputs }
    \cup { AddSpawnerCommand(cid, p[1], p[2]) : p \in PtInputs }
    \cup { RemoveSpawnerCommand(E, cid, spawner) : spawner \in SeqToSet(E.spawners) }
    \cup { ClearAllCommand(cid) }

\* The window `run` follows: n <= maxHistorySize commands through
\* history.execute, then n undos, then n redos. run.start is the scene before
\* the first command and run.preUndo the scene before the first undo.
Execute ==
    /\ run.phase \in {"none", "exec"}
    /\ run.n < maxHistorySize
    /\ \E cmd \in NewCommands(entities, FreshCid(history)) :
        LET r == historyExecute(entities, history, cmd)
        IN /\ entities' = r.E
           /\ history' = r.H
           /\ last' = Op("execute", TRUE, 0, <<cmd.type>>)
           /\ UNCHANGED <<ctlVars, timeVars, timers>>
           /\ run' = IF run.phase = "none"
                     THEN [ phase |-> "exec", n |-> 1, k |-> 0,
                            start |-> Contents(entities), preUndo |-> NoContents ]
                     ELSE [run EXCEPT !.n = @ + 1]

Undo ==
    /\ run.phase = "exec" \/ (run.phase = "undo" /\ run.k < run.n)
    /\ LET r == historyUndo(entities, history)
       IN /\ entities' = r.E
          /\ history' = r.H
          /\ last' = Op("undo", r.ret, 0, << >>)
          /\ UNCHANGED <<ctlVars, timeVars, timers>>
          /\ run' = IF run.phase = "exec"
                    THEN [run EXCEPT !.phase = "undo", !.k = 1, !.preUndo = Contents(entities)]
                    ELSE [run EXCEPT !.k = @ + 1]

Redo ==
    /\ (run.phase = "undo" /\ run.k = run.n) \/ (run.phase = "redo" /\ run.k < run.n)
    /\ LET r == historyRedo(entities, history)
       IN /\ entities' = r.E
          /\ history' = r.H
          /\ last' = Op("redo", r.ret, 0, << >>)
          /\ UNCHANGED <<ctlVars, timeVars, timers>>
          /\ run' = IF run.phase = "undo"
                    THEN [run EXCEPT !.phase = "redo", !.k = 1]
                    ELSE [run EXCEPT !.k = @ + 1]

\* The entity manager driven directly by its callers.
NextEM ==
    \/ AddLine \/ RemoveLine \/ UpdateLineEndpoint \/ UpdateLinePosition
    \/ AddBall \/ RemoveBall \/ AddSpawner \/ RemoveSpawner

SpecEM == Init /\ [][NextEM]_vars

\* A scene is set up, then one window of executes, undos and redos runs.
Setup ==
    /\ run.phase = "none"
    /\ (AddLine \/ UpdateLineEndpoint \/ AddSpawner)

NextUndoRedo == Setup \/ Execute \/ Undo \/ Redo

SpecUndoRedo == Init /\ [][NextUndoRedo]_vars

\* --------------------------------------------------------- the controller
\* game.js update(): physics moves the balls (those in `fall` drop below the
\* off-screen line), the spawners in `due` have their interval elapsed and
\* emit a ball, off-screen balls are removed, and a held pointer sprays
\* `burst` balls when the hold has lasted long enough.
RECURSIVE updateSpawners(_, _, _)
updateSpawners(E, array, due) ==
    IF array = << >> THEN E
    ELSE LET sp == E.spawnerObj[Head(array)]
             E1 == IF Head(array) \in due THEN addBall(E, sp.x, sp.y) ELSE E
         IN updateSpawners(E1, Tail(array), due)

physicsUpdate(E, fall) ==
    [E EXCEPT !.balls = [ i \in 1..Len(@) |->
                            IF @[i].id \in fall
                            THEN [@[i] EXCEPT !.y = screenHeight + offScreenMargin + 1]
                            ELSE @[i] ]]

isOffScreen(ball, height) == ball.y > height + offScreenMargin

RECURSIVE removeOffScreenFrom(_, _, _)
removeOffScreenFrom(E, i, height) ==
    IF i = 0 THEN E
    ELSE removeOffScreenFrom(IF isOffScreen(E.balls[i], height)
                             THEN removeBall(E, E.balls[i].id) ELSE E,
                             i - 1, height)

\* The loop run forwards: after a removal the next ball slides into index i
\* and is skipped.
RECURSIVE removeOffScreenForward(_, _, _)
removeOffScreenForward(E, i, height) ==
    IF i > Len(E.balls) THEN E
    ELSE removeOffScreenForward(IF isOffScreen(E.balls[i], height)
                                THEN removeBall(E, E.balls[i].id) ELSE E,
                                i + 1, height)

removeOffScreenBalls_Forward(E, height) == removeOffScreenForward(E, 1, height)

\* for (i = balls.length - 1; i >= 0; i--) if (balls[i].isOffScreen(h)) removeBall(balls[i])
removeOffScreenBalls(E, height) == removeOffScreenFrom(E, Len(E.balls), height)

RECURSIVE sprayBalls(_, _, _, _)
sprayBalls(E, n, x, y) == IF n = 0 THEN E ELSE sprayBalls(addBall(E, x, y), n - 1, x, y)

interactionUpdate(S, m, burst) ==
    IF /\ m.isDown /\ ~S.drawing.active /\ ~S.dragging.active
       /\ burst > 0
       /\ ~isMouseOverUI(S.ui, m.downX, m.downY)
    THEN [S EXCEPT !.E = sprayBalls(S.E, burst, m.x, m.y)]
    ELSE S

update(S, m, fall, due, burst) ==
    LET E1 == physicsUpdate(S.E, fall)
        E2 == updateSpawners(E1, E1.spawners, due)
        E3 == removeOffScreenBalls(E2, screenHeight)
    IN interactionUpdate([S EXCEPT !.E = E3], m, burst)

\* ------------------------------------------------- the ball collection alone
BallStep(E, op) ==
    /\ Len(E.balls) <= MaxSceneBalls
    /\ entities' = E
    /\ last' = op
    /\ UNCHANGED <<history, run, ctlVars, timeVars, timers>>

BallAdd ==
    \E p \in BallInputs :
        BallStep(addBall(entities, p[1], p[2]), Op("addBall", TRUE, FreshBallId(entities), p))

\* physics.update: some balls drop below the off-screen line.
BallFall ==
    \E fall \in SUBSET { entities.balls[i].id : i \in 1..Len(entities.balls) } :
        /\ fall # {}
        /\ BallStep(physicsUpdate(entities, fall), Op("physicsUpdate", TRUE, 0, <<fall>>))

\* last.ret is the number of balls the sweep removed.
BallSweep ==
    LET E == removeOffScreenBalls(entities, screenHeight)
    IN BallStep(E, Op("removeOffScreenBalls", TRUE, Len(entities.balls) - Len(E.balls),
                      <<screenHeight>>))

NextBalls == BallAdd \/ BallFall \/ BallSweep

SpecBalls == Init /\ [][NextBalls]_vars

\* ------------------------------------------- the spawners against the clock
\* updateSpawners(now) with the test made with >=.
RECURSIVE updateSpawnersAt_AtInterval(_, _, _)
updateSpawnersAt_AtInterval(E, array, now) ==
    IF array = << >> THEN E
    ELSE LET sp == E.spawnerObj[Head(array)]
             E1 == IF now - sp.lastSpawn >= sp.interval
                   THEN [addBall(E, sp.x, sp.y) EXCEPT !.spawnerObj[Head(array)].lastSpawn = now]
                   ELSE E
         IN updateSpawnersAt_AtInterval(E1, Tail(array), now)

\* updateSpawners(now): every spawner whose interval has elapsed since its
\* lastSpawn emits a ball at its position and sets lastSpawn = now.
RECURSIVE updateSpawnersAt(_, _, _)
updateSpawnersAt(E, array, now) ==
    IF array = << >> THEN E
    ELSE LET sp == E.spawnerObj[Head(array)]
             E1 == IF now - sp.lastSpawn > sp.interval
                   THEN [addBall(E, sp.x, sp.y) EXCEPT !.spawnerObj[Head(array)].lastSpawn = now]
                   ELSE E
         IN updateSpawnersAt(E1, Tail(array), now)

\* The spawners of the collection that updateSpawners(now) makes emit a ball.
Emitting(E, now) ==
    { s \in SeqToSet(E.spawners) : now - E.spawnerObj[s].lastSpawn > E.spawnerObj[s].interval }

\* A spawner is added at the current frame time.
ClockAddSpawner ==
    \E p \in PtInputs :
        /\ Len(entities.spawnerObj) < MaxSpawnerObjs
        /\ entities' = addSpawner(entities, p[1], p[2])
        /\ births' = Append(births, [ t0 |-> clock, made |-> 0 ])
        /\ last' = Op("addSpawner", TRUE, Len(entities.spawnerObj) + 1, p)
        /\ UNCHANGED <<history, run, ctlVars, clock, engineVars, timers>>

\* The next frame: animate() takes the new timestamp and update() hands it
\* to updateSpawners.
ClockFrame ==
    \E tick \in TickInputs :
        /\ clock + tick <= MaxTime
        /\ clock' = clock + tick
        /\ entities' = updateSpawnersAt(entities, entities.spawners, clock + tick)
        /\ births' = [ s \in 1..Len(births) |->
                         IF s \in Emitting(entities, clock + tick)
                         THEN [births[s] EXCEPT !.made = @ + 1]
                         ELSE births[s] ]
        /\ last' = Op("updateSpawners", TRUE, 0, <<clock + tick, tick>>)
        /\ UNCHANGED <<history, run, ctlVars, engineVars, timers>>

NextClock == ClockAddSpawner \/ ClockFrame

SpecClock == Init /\ [][NextClock]_vars

\* --------------------------------------------------- scaleMultiple alone
\* The boxes of positive width and height with edges in ScaleEdges.
ScaleBounds ==
    { [ minX |-> Num(b[1]), maxX |-> Num(b[2]), minY |-> Num(b[3]), maxY |-> Num(b[4]) ] :
        b \in { c \in ScaleEdges \X ScaleEdges \X ScaleEdges \X ScaleEdges :
                  c[1] < c[2] /\ c[3] < c[4] } }

ScalePoints == { <<Num(c[1]), Num(c[2])>> : c \in ScaleCoords \X ScaleCoords }

\* scaleMultiple(lines, spawners, A, B) on an entity with a point at pt: last
\* holds the point, A and B, and the point after the call.
ScaleThere ==
    \E pt \in ScalePoints, A \in ScaleBounds, B \in ScaleBounds :
        /\ last.op = "init"
        /\ last' = Op("scaleMultiple", TRUE, scalePoint(pt, A, B), <<pt, A, B>>)
        /\ UNCHANGED <<entities, history, run, ctlVars, timeVars, timers>>

\* scaleMultiple(lines, spawners, B, A) right after it.
ScaleBack ==
    /\ last.op = "scaleMultiple"
    /\ last' = Op("scaleBack", TRUE, scalePoint(last.ret, last.args[3], last.args[2]),
                   last.args)
    /\ UNCHANGED <<entities, history, run, ctlVars, timeVars, timers>>

NextScale == ScaleThere \/ ScaleBack

SpecScale == Init /\ [][NextScale]_vars

\* One controller step: the handler's result S becomes the state.
Effect(S, m, p, op) ==
    /\ events' = events + 1
    /\ entities' = S.E
    /\ history' = S.H
    /\ drawing' = S.drawing
    /\ dragging' = S.dragging
    /\ ui' = S.ui
    /\ shiftPressed' = S.shiftPressed
    /\ origin' = S.origin
    /\ mouse' = m
    /\ isPaused' = p
    /\ last' = op
    /\ timers' = IF op.op = "mouseDown" THEN [timers EXCEPT !.downTime = clock] ELSE timers
    /\ UNCHANGED <<run, timeVars>>

Event(S, m, p, op) == WithinBounds(S.E) /\ Effect(S, m, p, op)

\* The object bounds of a multi-selection session.
WithinSceneBounds(E) ==
    /\ Len(E.lineObj) <= MaxSceneLineObjs
    /\ Len(E.spawnerObj) <= MaxSceneSpawnerObjs
    /\ Len(E.balls) <= MaxBalls

\* What last records of a step: events that are neither an undo, a redo nor
\* a drag push are an "event", with whether history.execute ran a command.
Recorded(S) == IF S.H = history THEN "none" ELSE "execute"

\* What the drag that the controller is in moves: the dragged line, or the
\* multi-selection.
Dragged(S) ==
    IF S.dragging.type \in {"endpoint", "line"}
    THEN [ lines |-> <<S.dragging.line>>, spawners |-> << >> ]
    ELSE [ lines |-> S.ui.selected.lines, spawners |-> S.ui.selected.spawners ]

\* An event is followed by the next event (frame = FALSE) or, in a
\* multi-selection session (frame = TRUE), by an animation frame in which no
\* ball falls out, no spawner is due and no burst is sprayed.
Follow(S, m, p, op, frame) ==
    IF frame
    THEN WithinSceneBounds(S.E) /\ Effect(render(update(S, m, {}, {}, 0)), m, p, op)
    ELSE Event(S, m, p, op)

\* A button goes down where the last pointer-move left the pointer. A press
\* that starts a drag notes the coordinates of what it is about to move.
PointerDown(frame) ==
    \E S \in { handleMouseDown(Ctl, mouse.x, mouse.y) } :
      \E group \in { Dragged(S) } :
        LET starts == downBranch(Ctl, mouse.x, mouse.y) \in {"resize", "multiple", "endpoint", "line"}
            noted == IF starts
                     THEN [ geo |-> GroupGeo(S.E, group.lines, group.spawners), H |-> S.H ]
                     ELSE origin
            m == [mouse EXCEPT !.isDown = TRUE, !.downX = mouse.x, !.downY = mouse.y]
        IN Follow([S EXCEPT !.origin = noted], m, isPaused,
                  Op("mouseDown", TRUE, 0, <<Recorded(S)>>), frame)

\* The pointer is a mouse with one button: presses and releases alternate.
OnMouseDown == ~mouse.isDown /\ PointerDown(FALSE)

\* A whole-line drag moves the line by half the doubled delta, and a resize
\* scales the group: the pointer positions taken are those that keep the
\* coordinates integral.
PointerMove(pos, frame) ==
    /\ (dragging.active /\ dragging.type = "line")
          => (dragDelta2(Ctl, pos[1], pos[2])[1] % 2 = 0
              /\ dragDelta2(Ctl, pos[1], pos[2])[2] % 2 = 0)
    /\ (dragging.active /\ dragging.type = "resize" /\ ~ui.areaSelection.active)
          => LET newBounds == resizedBounds(Ctl, pos[1], pos[2])
             IN \/ newBounds.maxX - newBounds.minX < minResizeSize
                \/ newBounds.maxY - newBounds.minY < minResizeSize
                \/ scaleIsExact(entities, ui.selected.lines, ui.selected.spawners,
                                dragging.initialBounds, newBounds)
    /\ LET m == [mouse EXCEPT !.x = pos[1], !.y = pos[2]]
       IN Follow(handleMouseMove(Ctl, pos[1], pos[2]), m, isPaused,
                Op("event", TRUE, 0, <<"none">>), frame)

OnMouseMove == \E pos \in Pos : PointerMove(pos, FALSE)

\* What last records of a pointer-up: after the push of a single-line drag a
\* "mouseUp" holding the dragged line and its coordinates at pointer-up;
\* after the end of a multi-selection drag or resize a "multiUp" holding
\* whether a command was pushed, the group, its coordinates at pointer-down
\* and the pointer's displacement since; after a finished drawing a "draw" holding the line addLine
\* returned and the drawn segment; else an "event".
UpRecorded(S) ==
    IF ui.areaSelection.active
    THEN Op("event", TRUE, 0, <<Recorded(S)>>)
    ELSE IF dragging.active
    THEN IF dragging.type \in {"multiple", "resize"}
         THEN Op("multiUp", TRUE, 0,
                 << IF dragBuilds(Ctl) THEN "push" ELSE "none", Dragged(Ctl), origin.geo,
                    <<mouse.x - mouse.downX, mouse.y - mouse.downY>> >>)
         ELSE IF dragMoved(Ctl)
         THEN Op("mouseUp", TRUE, dragging.line, <<"push", LineGeo(entities, dragging.line)>>)
         ELSE Op("event", TRUE, 0, <<Recorded(S)>>)
    ELSE IF /\ drawing.active
            /\ Hypot2(drawing.x2 - drawing.x1, drawing.y2 - drawing.y1)
                 > minDragDistance * minDragDistance
    THEN Op("draw", TRUE,
            addLineRet(entities, drawing.x1, drawing.y1, drawing.x2, drawing.y2),
            <<"execute", <<drawing.x1, drawing.y1, drawing.x2, drawing.y2>>>>)
    ELSE Op("event", TRUE, 0, <<Recorded(S)>>)

\* The button is released: a short click, a long hold, or neither.
PointerUp(press, frame) ==
    LET event == [ x |-> mouse.x, y |-> mouse.y,
                   downX |-> mouse.downX, downY |-> mouse.downY,
                   isClick |-> press = "click", isHold |-> press = "hold" ]
        ends == dragging.active /\ ~ui.areaSelection.active
        m == [mouse EXCEPT !.isDown = FALSE]
    IN \E S \in { handleMouseUp(Ctl, event) } :
         Follow([S EXCEPT !.origin = IF ends THEN NoOrigin ELSE origin], m, isPaused,
                UpRecorded(S), frame)

OnMouseUp ==
    /\ mouse.isDown
    /\ \E press \in {"click", "hold", "between"} : PointerUp(press, FALSE)

\* Ctrl+Z; a ScaleMultiple command is undone or redone where that keeps the
\* coordinates integral. After an undo that directly follows a drag push,
\* last carries the dragged line and its pointer-up coordinates on; after one
\* that directly follows a drawing, the drawn segment; after one that
\* directly follows the push of a multi-selection drag, what that recorded.
PressUndo(frame) ==
  \E r \in { historyUndo(entities, history) } :
    LET op == IF last.op = "mouseUp" /\ last.args[1] = "push"
              THEN Op("undo", r.ret, last.ret, <<"afterPush", last.args[2]>>)
              ELSE IF last.op = "draw"
              THEN Op("undo", r.ret, last.ret, <<"afterDraw", last.args[2]>>)
              ELSE IF last.op = "multiUp" /\ last.args[1] = "push"
              THEN Op("undo", r.ret, 0, <<"afterMulti", last.args[2], last.args[3], last.args[4]>>)
              ELSE Op("undo", r.ret, 0, <<"none">>)
    IN /\ history.undoStack # << >> => cmdIsExact(entities, Last(history.undoStack), FALSE)
       /\ Follow([Ctl EXCEPT !.E = r.E, !.H = r.H], mouse, isPaused, op, frame)

OnUndo == PressUndo(FALSE)

\* Ctrl+Shift+Z or Ctrl+Y.
PressRedo(frame) ==
    \E r \in { historyRedo(entities, history) } :
       /\ history.redoStack # << >> => cmdIsExact(entities, Last(history.redoStack), TRUE)
       /\ Follow([Ctl EXCEPT !.E = r.E, !.H = r.H], mouse, isPaused,
                Op("redo", r.ret, 0, <<"none">>), frame)

OnRedo == PressRedo(FALSE)

\* Delete or Backspace; last notes what was selected when the key went down.
PressDelete(frame) ==
    LET which == IF hasMultipleSelection(ui) THEN "multi"
                 ELSE IF ui.selected.line # Null THEN "single" ELSE "all"
    IN \E S \in { handleDeleteKey(Ctl) } :
         Follow(S, mouse, isPaused, Op("delete", TRUE, 0, <<Recorded(S), which>>), frame)

OnDelete == PressDelete(FALSE)

PressEscape(frame) ==
    Follow([Ctl EXCEPT !.ui = deselectMultiple(deselectLine(ui))], mouse, isPaused,
           Op("event", TRUE, 0, <<"none">>), frame)

OnEscape == PressEscape(FALSE)

\* The Shift key goes down (handleKeyPress) or up (handleKeyUp).
PressShift(down, frame) ==
    Follow([Ctl EXCEPT !.shiftPressed = down], mouse, isPaused,
          Op("event", TRUE, 0, <<"none">>), frame)

OnKeyC ==
    Event(clearLinesAndSpawners(Ctl), mouse, isPaused, Op("event", TRUE, 0, <<"execute">>))

OnKeyX ==
    Event([Ctl EXCEPT !.E = clearBalls(entities)], mouse, isPaused,
          Op("event", TRUE, 0, <<"none">>))

\* Space: togglePause.
OnSpace ==
    Event(Ctl, mouse, ~isPaused, Op("event", TRUE, 0, <<"none">>))

\* One animation frame: update (skipped while paused), then render.
OnFrame ==
    \E fall \in SUBSET { entities.balls[i].id : i \in 1..Len(entities.balls) },
       due \in SUBSET SeqToSet(entities.spawners),
       burst \in 0..MaxBurst :
        /\ isPaused => (fall = {} /\ due = {} /\ burst = 0)
        /\ LET S == IF isPaused THEN Ctl ELSE update(Ctl, mouse, fall, due, burst)
           IN Event(render(S), mouse, isPaused, Op("event", TRUE, 0, <<"none">>))

\* The controller followed for MaxEvents events and frames.
MouseDown == events < MaxEvents /\ OnMouseDown
MouseMove == events < MaxEvents /\ OnMouseMove
MouseUp == events < MaxEvents /\ OnMouseUp
KeyUndo == events < MaxEvents /\ OnUndo
KeyRedo == events < MaxEvents /\ OnRedo
KeyDelete == events < MaxEvents /\ OnDelete
KeyEscape == events < MaxEvents /\ OnEscape
KeyC == events < MaxEvents /\ OnKeyC
KeyX == events < MaxEvents /\ OnKeyX
KeySpace == events < MaxEvents /\ OnSpace
Frame == events < MaxEvents /\ OnFrame

Next ==
    \/ MouseDown \/ MouseMove \/ MouseUp
    \/ KeyUndo \/ KeyRedo \/ KeyDelete \/ KeyEscape \/ KeyC \/ KeyX \/ KeySpace
    \/ Frame

Spec == Init /\ [][Next]_vars

\* A multi-selection session: the scene is set up by direct EntityManager
\* calls, then the controller is followed for MaxMultiEvents events, each
\* followed by a frame; the button is released neither as a click nor as a
\* hold.
SetupSpawner ==
    /\ events = 0 /\ last.op \in {"init", "addSpawner"}
    /\ Len(entities.spawnerObj) < Len(SceneSpawners)
    /\ LET p == SceneSpawners[Len(entities.spawnerObj) + 1]
       IN /\ entities' = addSpawner(entities, p[1], p[2])
          /\ last' = Op("addSpawner", TRUE, Len(entities.spawnerObj) + 1, p)
    /\ UNCHANGED <<history, run, ctlVars, timeVars, timers>>

SetupLine ==
    /\ events = 0 /\ last.op \in {"init", "addSpawner"}
    /\ entities' = addLine(entities, SceneLine[1], SceneLine[2], SceneLine[3], SceneLine[4])
    /\ last' = Op("addLine", TRUE, Len(entities.lineObj) + 1, SceneLine)
    /\ UNCHANGED <<history, run, ctlVars, timeVars, timers>>

\* The session starts with the three spawners in place.
SceneReady == Len(entities.spawnerObj) >= Len(SceneSpawners)

MultiDown == SceneReady /\ events < MaxMultiEvents /\ ~mouse.isDown /\ PointerDown(TRUE)
MultiMove == SceneReady /\ events < MaxMultiEvents /\ \E pos \in MultiPos : PointerMove(pos, TRUE)
MultiUp == SceneReady /\ events < MaxMultiEvents /\ mouse.isDown /\ PointerUp("between", TRUE)
MultiShiftDown == SceneReady /\ events < MaxMultiEvents /\ ~shiftPressed /\ PressShift(TRUE, TRUE)
MultiShiftUp == SceneReady /\ events < MaxMultiEvents /\ shiftPressed /\ PressShift(FALSE, TRUE)
MultiUndo == SceneReady /\ events < MaxMultiEvents /\ PressUndo(TRUE)
MultiRedo == SceneReady /\ events < MaxMultiEvents /\ PressRedo(TRUE)
MultiDelete == SceneReady /\ events < MaxMultiEvents /\ PressDelete(TRUE)
MultiEscape == SceneReady /\ events < MaxMultiEvents /\ PressEscape(TRUE)

NextMulti ==
    \/ SetupSpawner \/ SetupLine
    \/ MultiDown \/ MultiMove \/ MultiUp \/ MultiShiftDown \/ MultiShiftUp
    \/ MultiUndo \/ MultiRedo \/ MultiDelete \/ MultiEscape

SpecMulti == Init /\ [][NextMulti]_vars

\* The same session with the three spawners alone and the pointer, the Shift
\* key and the history keys only, followed for MaxGroupEvents events.
GroupDown == SceneReady /\ events < MaxGroupEvents /\ ~mouse.isDown /\ PointerDown(TRUE)
GroupMove == SceneReady /\ events < MaxGroupEvents /\ \E pos \in MultiPos : PointerMove(pos, TRUE)
GroupUp == SceneReady /\ events < MaxGroupEvents /\ mouse.isDown /\ PointerUp("between", TRUE)
GroupShiftDown == SceneReady /\ events < MaxGroupEvents /\ ~shiftPressed /\ PressShift(TRUE, TRUE)
GroupShiftUp == SceneReady /\ events < MaxGroupEvents /\ shiftPressed /\ PressShift(FALSE, TRUE)
GroupUndo == SceneReady /\ events < MaxGroupEvents /\ PressUndo(TRUE)
GroupRedo == SceneReady /\ events < MaxGroupEvents /\ PressRedo(TRUE)

NextGroup ==
    \/ SetupSpawner
    \/ GroupDown \/ GroupMove \/ GroupUp \/ GroupShiftDown \/ GroupShiftUp
    \/ GroupUndo \/ GroupRedo

SpecGroup == Init /\ [][NextGroup]_vars

\* A resize session over the three spawners: the pointer goes to the lower
\* right handle of the box around them and drags it to where the box has
\* half or twice its width and height, followed for MaxResizeEvents events.
ResizeDown == SceneReady /\ events < MaxResizeEvents /\ ~mouse.isDown /\ PointerDown(TRUE)
ResizeMove == SceneReady /\ events < MaxResizeEvents /\ \E pos \in ResizePos : PointerMove(pos, TRUE)
ResizeUp == SceneReady /\ events < MaxResizeEvents /\ mouse.isDown /\ PointerUp("between", TRUE)
ResizeShiftDown == SceneReady /\ events < MaxResizeEvents /\ ~shiftPressed /\ PressShift(TRUE, TRUE)
ResizeShiftUp == SceneReady /\ events < MaxResizeEvents /\ shiftPressed /\ PressShift(FALSE, TRUE)
ResizeUndo == SceneReady /\ events < MaxResizeEvents /\ PressUndo(TRUE)
ResizeRedo == SceneReady /\ events < MaxResizeEvents /\ PressRedo(TRUE)

NextResize ==
    \/ SetupSpawner
    \/ ResizeDown \/ ResizeMove \/ ResizeUp \/ ResizeShiftDown \/ ResizeShiftUp
    \/ ResizeUndo \/ ResizeRedo

SpecResize == Init /\ [][NextResize]_vars

\* A session over the same scene in which a second button or finger may go
\* down before the first is released, Shift may go down or up at any moment,
\* and a release is a click, a hold or neither; followed for MaxModeEvents
\* events.
ModeDown == SceneReady /\ events < MaxModeEvents /\ ~mouse.isDown /\ PointerDown(TRUE)
ModeDownHeld == SceneReady /\ events < MaxModeEvents /\ mouse.isDown /\ PointerDown(TRUE)
ModeMove == SceneReady /\ events < MaxModeEvents /\ \E pos \in ModePos : PointerMove(pos, TRUE)
ModeUp ==
    /\ SceneReady /\ events < MaxModeEvents /\ mouse.isDown
    /\ \E press \in {"click", "hold", "between"} : PointerUp(press, TRUE)
ModeShiftDown == SceneReady /\ events < MaxModeEvents /\ ~shiftPressed /\ PressShift(TRUE, TRUE)
ModeShiftUp == SceneReady /\ events < MaxModeEvents /\ shiftPressed /\ PressShift(FALSE, TRUE)
ModeDelete == SceneReady /\ events < MaxModeEvents /\ PressDelete(TRUE)
ModeEscape == SceneReady /\ events < MaxModeEvents /\ PressEscape(TRUE)

NextModes ==
    \/ SetupSpawner \/ SetupLine
    \/ ModeDown \/ ModeDownHeld \/ ModeMove \/ ModeUp \/ ModeShiftDown \/ ModeShiftUp
    \/ ModeDelete \/ ModeEscape

SpecModes == Init /\ [][NextModes]_vars

\* The pointer and the history keys alone, followed for MaxDragEvents events.
DragDown == events < MaxDragEvents /\ OnMouseDown
DragMove == events < MaxDragEvents /\ OnMouseMove
DragUp == events < MaxDragEvents /\ OnMouseUp
DragUndo == events < MaxDragEvents /\ OnUndo
DragRedo == events < MaxDragEvents /\ OnRedo

NextDrag == DragDown \/ DragMove \/ DragUp \/ DragUndo \/ DragRedo

SpecDrag == Init /\ [][NextDrag]_vars

\* ------------------------------------------------- the physics engine
\* PhysicsEngine's constructor: fixedTimeStep = 1000 / fixedTimeStepHz ms; the
\* cap on delta in update() is 1000 / maxDeltaHz ms. Both in ticks.
fixedTimeStep == (1000 * TicksPerMs) \div fixedTimeStepHz
maxDelta == (1000 * TicksPerMs) \div maxDeltaHz

\* while (accumulator >= fixedTimeStep && subSteps < maxSubSteps)
\*     { Engine.update; accumulator -= fixedTimeStep; subSteps++ }
RECURSIVE subStepLoop(_, _)
subStepLoop(acc, subSteps) ==
    IF acc >= fixedTimeStep /\ subSteps < maxSubSteps
    THEN subStepLoop(acc - fixedTimeStep, subSteps + 1)
    ELSE [ accumulator |-> acc, subSteps |-> subSteps ]

\* The loop's result left as it is.
drain_Keep(r) == r

\* if (subSteps >= maxSubSteps) accumulator = 0
drain(r) == IF r.subSteps >= maxSubSteps THEN [r EXCEPT !.accumulator = 0] ELSE r

\* PhysicsEngine.update(delta): the accumulator it leaves and the number of
\* engine steps it ran.
engineUpdate(acc, delta) == drain(subStepLoop(acc + Min({delta, maxDelta}), 0))

\* ------------------------------------------------ the animation frame
\* UIManager's welcome queries and transitions, on the welcome record W.
needsWelcomeBalls(W) == W.isActive /\ ~W.ballsCreated
isWelcomeShowingTitle(W) == W.isActive /\ ~W.clickedToStart
isWelcomeBallsFalling(W) == W.ballsFalling

startGame(W, now) ==
    IF ~W.isActive THEN W
    ELSE [W EXCEPT !.clickedToStart = TRUE, !.ballsFalling = TRUE, !.ballsFallTime = now]

finishWelcome(W, now) ==
    IF now - W.ballsFallTime > welcomeFallMs
    THEN [W EXCEPT !.isActive = FALSE, !.ballsFalling = FALSE]
    ELSE W

\* What a frame's log holds of a step: its name and the three collections as
\* the step left them.
ran(F, name) ==
    [F EXCEPT !.log = Append(@, [ step |-> name, lines |-> F.S.E.lines,
                                  balls |-> F.S.E.balls, spawners |-> F.S.E.spawners ])]

\* createWelcomeBalls(positions), createWelcomeLines(y), markWelcomeBallsCreated():
\* one static ball per position, each with its body in the physics world, and
\* the two crossed lines; neither enters the balls or the lines collection.
createWelcome(F) ==
    [F EXCEPT !.W.balls = [ i \in 1..Len(WelcomeText) |->
                              [ id |-> WelcomeBallId + i,
                                x |-> WelcomeText[i][1], y |-> WelcomeText[i][2] ] ],
              !.W.lines = << <<welcomeLineMargin, screenHeight - welcomeLineLift - welcomeLineTilt,
                               screenWidth - welcomeLineMargin, screenHeight - welcomeLineLift + welcomeLineTilt>>,
                             <<welcomeLineMargin, screenHeight - welcomeLineLift + welcomeLineTilt,
                               screenWidth - welcomeLineMargin, screenHeight - welcomeLineLift - welcomeLineTilt>> >>,
              !.W.ballsCreated = TRUE,
              !.S.E.world = @ \cup { BallBody(WelcomeBallId + i) : i \in 1..Len(WelcomeText) }]

\* The end of render() while the welcome balls fall: finishWelcome(), and
\* once the welcome is over clearWelcomeScreen(), balls.push(...welcomeBalls)
\* and welcomeBalls = [].
handOver(F, W) ==
    IF W.isActive THEN [F EXCEPT !.W = W]
    ELSE [F EXCEPT !.W = [W EXCEPT !.balls = << >>, !.lines = << >>],
                   !.S.E.balls = @ \o W.balls]

\* Game.render() after its first block.
renderScene(F, now) ==
    IF isWelcomeShowingTitle(F.W) THEN F
    ELSE IF isWelcomeBallsFalling(F.W) THEN handOver(F, finishWelcome(F.W, now))
    ELSE [F EXCEPT !.S = render(@)]

\* Game.render() in the revision with the welcome screen.
gameRender(F, now) ==
    ran(renderScene(IF needsWelcomeBalls(F.W) THEN createWelcome(F) ELSE F, now), "render")

\* Game.update(timestamp, delta) in that revision: nothing while paused or
\* while the title shows; no interaction update while the welcome balls fall.
updateSteps(F, m, fall, due, burst) ==
    LET F1 == ran([F EXCEPT !.S.E = physicsUpdate(@, fall)], "physics")
        F2 == ran(F1, "balls")
        F3 == ran([F2 EXCEPT !.S.E = updateSpawners(@, @.spawners, due)], "spawners")
        F4 == ran([F3 EXCEPT !.S.E = removeOffScreenBalls(@, screenHeight)], "offscreen")
    IN IF isWelcomeBallsFalling(F.W) THEN F4
       ELSE ran([F4 EXCEPT !.S = interactionUpdate(@, m, burst)], "interaction")

gameUpdate(F, m, paused, fall, due, burst) ==
    IF paused \/ isWelcomeShowingTitle(F.W) THEN F ELSE updateSteps(F, m, fall, due, burst)

\* Game.animate(): update, then render.
animate(S, W, m, paused, now, fall, due, burst) ==
    gameRender(gameUpdate(ran([ S |-> S, W |-> W, log |-> << >> ], "begin"),
                          m, paused, fall, due, burst), now)

\* A session from the construction of the game with its welcome screen.
InitAnimate == InitScene /\ welcome = InitWelcome

\* One frame, tick ms after the last.
AnimateFrame ==
    \E tick \in AnimateTicks,
       fall \in SUBSET { entities.balls[i].id : i \in 1..Len(entities.balls) },
       due \in SUBSET SeqToSet(entities.spawners),
       burst \in 0..MaxBurst :
        /\ clock + tick <= MaxAnimateTime
        /\ (isPaused \/ isWelcomeShowingTitle(welcome)) => (fall = {} /\ due = {} /\ burst = 0)
        /\ isWelcomeBallsFalling(welcome) => burst = 0
        /\ \E F \in { animate(Ctl, welcome, mouse, isPaused, clock + tick, fall, due, burst) } :
             /\ Len(F.S.E.balls) <= MaxAnimateBalls
             /\ clock' = clock + tick
             /\ welcome' = F.W
             /\ entities' = F.S.E
             /\ ui' = F.S.ui
             /\ last' = Op("animate", TRUE, 0, <<F.log>>)
             /\ accumulator' = IF isPaused \/ isWelcomeShowingTitle(welcome) THEN accumulator
                                ELSE engineUpdate(accumulator, tick * TicksPerMs).accumulator
             /\ UNCHANGED <<history, run, drawing, dragging, shiftPressed, origin, mouse,
                            isPaused, events, births, timers>>

\* handleMouseDown while the title shows: startGame() and
\* startWelcomeBallsFall(), and nothing else.
AnimateStart ==
    /\ isWelcomeShowingTitle(welcome)
    /\ welcome' = startGame(welcome, clock)
    /\ last' = Op("startGame", TRUE, 0, << >>)
    /\ UNCHANGED <<entities, history, run, ctlVars, clock, births, accumulator, timers>>

\* The pointer, once the title is gone.
AnimateDown ==
    /\ ~isWelcomeShowingTitle(welcome) /\ events < MaxAnimateEvents /\ ~mouse.isDown
    /\ PointerDown(FALSE)
AnimateMove ==
    /\ ~isWelcomeShowingTitle(welcome) /\ events < MaxAnimateEvents
    /\ \E pos \in Pos : PointerMove(pos, FALSE)
AnimateUp ==
    /\ ~isWelcomeShowingTitle(welcome) /\ events < MaxAnimateEvents /\ mouse.isDown
    /\ \E press \in {"click", "hold"} : PointerUp(press, FALSE)
AnimateSpace == events < MaxAnimateEvents /\ OnSpace

NextAnimate ==
    AnimateFrame \/ AnimateStart \/ AnimateDown \/ AnimateMove \/ AnimateUp \/ AnimateSpace

SpecAnimate == InitAnimate /\ [][NextAnimate]_vars

\* ------------------------------------------------ the engine's clock alone
\* physics.update(delta) with a delta of DeltaInputs; last holds the steps
\* run, the delta and the accumulator the call found.
PhysicsUpdate ==
    \E delta \in DeltaInputs :
        /\ accumulator' = engineUpdate(accumulator, delta).accumulator
        /\ last' = Op("physics.update", TRUE, engineUpdate(accumulator, delta).subSteps,
                       <<delta, accumulator>>)
        /\ UNCHANGED <<entities, history, run, ctlVars, clock, births, welcome, timers>>

NextPhysics == PhysicsUpdate

SpecPhysics == Init /\ [][NextPhysics]_vars

\* ------------------------------------------------------ the scroll wheel
\* The interval as it is written, whatever it is.
setSpawnerInterval_Unclamped(E, spawner, interval) ==
    IF spawner = Null THEN E
    ELSE [E EXCEPT !.spawnerObj[spawner].interval = interval]

\* setSpawnerInterval(spawner, interval): Math.max(100, Math.min(5000, interval)).
setSpawnerInterval(E, spawner, interval) ==
    IF spawner = Null THEN E
    ELSE [E EXCEPT !.spawnerObj[spawner].interval = Max({intervalMin, Min({intervalMax, interval})})]

\* game.js handleWheel(delta, pos): the first spawner within reach gets
\* (interval || 1500) + delta * 50.
handleWheel(E, delta, x, y) ==
    IF findNearestSpawner(E, x, y, wheelReach) = Null THEN E
    ELSE setSpawnerInterval(E, findNearestSpawner(E, x, y, wheelReach),
             (IF E.spawnerObj[findNearestSpawner(E, x, y, wheelReach)].interval = 0
              THEN wheelDefaultInterval
              ELSE E.spawnerObj[findNearestSpawner(E, x, y, wheelReach)].interval)
             + delta * wheelStepMs)

WheelStep(E, op) ==
    /\ entities' = E
    /\ last' = op
    /\ UNCHANGED <<history, run, ctlVars, timeVars, timers>>

WheelAddSpawner ==
    /\ Len(entities.spawnerObj) < Len(WheelSpawners)
    /\ \E p \in { WheelSpawners[Len(entities.spawnerObj) + 1] } :
         WheelStep(addSpawner(entities, p[1], p[2]),
                   Op("addSpawner", TRUE, Len(entities.spawnerObj) + 1, p))

\* A wheel event: last holds the spawner found, the scroll ticks, the pointer
\* and the interval the spawner had.
Wheel ==
    \E delta \in WheelDeltas, pos \in WheelPos :
        \E sp \in { findNearestSpawner(entities, pos[1], pos[2], wheelReach) } :
            WheelStep(handleWheel(entities, delta, pos[1], pos[2]),
                      Op("handleWheel", TRUE, sp,
                         <<delta, pos, IF sp = Null THEN 0 ELSE entities.spawnerObj[sp].interval>>))

\* setSpawnerInterval called with a spawner of the collection or with null.
SetInterval ==
    \E sp \in SeqToSet(entities.spawners) \cup {Null}, ms \in IntervalInputs :
        WheelStep(setSpawnerInterval(entities, sp, ms),
                  Op("setSpawnerInterval", TRUE, sp, <<ms>>))

NextWheel == WheelAddSpawner \/ Wheel \/ SetInterval

SpecWheel == Init /\ [][NextWheel]_vars

\* ------------------------------------------------ the spatial queries alone
QueryStep(E, op) ==
    /\ entities' = E
    /\ last' = op
    /\ UNCHANGED <<history, run, ctlVars, timeVars, timers>>

QueryAddLine ==
    \E l \in QueryLines :
        /\ \A i \in 1..Len(entities.lineObj) : entities.lineObj[i].y1 # l[2]
        /\ QueryStep(addLine(entities, l[1], l[2], l[3], l[4]),
                     Op("addLine", TRUE, Len(entities.lineObj) + 1, l))

QueryAddSpawner ==
    \E p \in QuerySpawners :
        /\ \A i \in 1..Len(entities.spawnerObj) : entities.spawnerObj[i].x # p[1]
        /\ QueryStep(addSpawner(entities, p[1], p[2]),
                     Op("addSpawner", TRUE, Len(entities.spawnerObj) + 1, p))

\* updateLineEndpoint(line, 'end', ..) brings a line's end close to its start.
QueryShorten ==
    \E line \in SeqToSet(entities.lines) :
        /\ entities.lineObj[line].x2 - entities.lineObj[line].x1 > ShortLength
        /\ QueryStep(updateLineEndpoint(entities, line, "end",
                                        entities.lineObj[line].x1 + ShortLength,
                                        entities.lineObj[line].y1),
                     Op("updateLineEndpoint", TRUE, line, <<"end">>))

\* The three queries: last holds what the query returned, the point and the
\* threshold.
FindLine ==
    \E pos \in QueryPos, threshold \in QueryThresholds :
        /\ last' = Op("findNearestLine", TRUE, findNearestLine(entities, pos[1], pos[2], threshold),
                       <<pos[1], pos[2], threshold>>)
        /\ UNCHANGED <<entities, history, run, ctlVars, timeVars, timers>>

FindEndpoint ==
    \E pos \in QueryPos, threshold \in QueryThresholds :
        /\ last' = Op("findNearestEndpoint", TRUE, findNearestEndpoint(entities, pos[1], pos[2], threshold),
                       <<pos[1], pos[2], threshold>>)
        /\ UNCHANGED <<entities, history, run, ctlVars, timeVars, timers>>

FindSpawner ==
    \E pos \in QueryPos, threshold \in QueryThresholds :
        /\ last' = Op("findNearestSpawner", TRUE, findNearestSpawner(entities, pos[1], pos[2], threshold),
                       <<pos[1], pos[2], threshold>>)
        /\ UNCHANGED <<entities, history, run, ctlVars, timeVars, timers>>

NextQuery ==
    QueryAddLine \/ QueryAddSpawner \/ QueryShorten \/ FindLine \/ FindEndpoint \/ FindSpawner

SpecQuery == Init /\ [][NextQuery]_vars

\* ------------------------------------------- the spray against the clock
\* InteractionController.update(mouseState) at time now, with the timers T.
burstSize(holdDuration) == Min({maxBurstSize, holdDuration \div burstStepMs + 1})

\* The test without the time since the last burst.
sprayDue_NoInterval(S, m, T, now) ==
    /\ m.isDown /\ ~S.drawing.active /\ ~S.dragging.active
    /\ now - T.downTime > holdThreshold
    /\ ~isMouseOverUI(S.ui, m.downX, m.downY)

sprayDue(S, m, T, now) ==
    /\ m.isDown /\ ~S.drawing.active /\ ~S.dragging.active
    /\ now - T.downTime > holdThreshold
    /\ now - T.lastBallSpray > ballSprayInterval
    /\ ~isMouseOverUI(S.ui, m.downX, m.downY)

interactionUpdateAt(S, m, T, now) ==
    IF sprayDue(S, m, T, now)
    THEN [S EXCEPT !.E = sprayBalls(@, burstSize(now - T.downTime), m.x, m.y)]
    ELSE S

\* game.js update() at time now in a scene whose spawners are not due: the
\* balls in `fall` drop out, then the interaction update.
updateAt(S, m, T, now, fall) ==
    interactionUpdateAt([S EXCEPT !.E = removeOffScreenBalls(physicsUpdate(@, fall), screenHeight)],
                        m, T, now)

\* One frame, tick ms after the last: all the balls fall out, or none does.
\* last holds the balls that fell out and the frame's time.
SprayFrame ==
    \E tick \in SprayTicks,
       fall \in { {}, { entities.balls[i].id : i \in 1..Len(entities.balls) } } :
        /\ clock + tick <= MaxSprayTime
        /\ ~isPaused
        /\ \E S \in { render(updateAt(Ctl, mouse, timers, clock + tick, fall)) } :
             /\ Len(S.E.balls) <= MaxSprayBalls
             /\ clock' = clock + tick
             /\ entities' = S.E
             /\ ui' = S.ui
             /\ history' = S.H
             /\ timers' = IF sprayDue(Ctl, mouse, timers, clock + tick)
                          THEN [timers EXCEPT !.lastBallSpray = clock + tick]
                          ELSE timers
             /\ last' = Op("frame", TRUE, 0, <<clock + tick, fall>>)
             /\ UNCHANGED <<run, drawing, dragging, shiftPressed, origin, mouse, isPaused,
                            events, births, engineVars>>

SprayDown == events < MaxSprayEvents /\ ~mouse.isDown /\ PointerDown(FALSE)
SprayMove == events < MaxSprayEvents /\ \E pos \in Pos : PointerMove(pos, FALSE)
SprayUp ==
    /\ events < MaxSprayEvents /\ mouse.isDown
    /\ PointerUp(IF clock - timers.downTime >= holdThreshold THEN "hold"
                 ELSE IF clock - timers.downTime < clickThreshold THEN "click"
                 ELSE "between", FALSE)
SprayShiftDown == events < MaxSprayEvents /\ ~shiftPressed /\ PressShift(TRUE, FALSE)

NextSpray == SprayFrame \/ SprayDown \/ SprayMove \/ SprayUp \/ SprayShiftDown

SpecSpray == Init /\ [][NextSpray]_vars

\* --------------------------------------- the resize gesture, with rounding
\* The number f is below the integer n.
LessThan(f, n) == Exact(f)[1] < n * Exact(f)[2]

\* handleMouseMove, type 'resize': the box the pointer asks for, from the
\* reference bounds and the handle's letters.
resizedNumbers(g, x, y) ==
    [ minX |-> IF g.resizeHandle \in {"tl", "bl", "l"}
               THEN fadd(g.initialBounds.minX, fsub(x, g.startX)) ELSE g.initialBounds.minX,
      maxX |-> IF g.resizeHandle \in {"tr", "br", "r"}
               THEN fadd(g.initialBounds.maxX, fsub(x, g.startX)) ELSE g.initialBounds.maxX,
      minY |-> IF g.resizeHandle \in {"tl", "t", "tr"}
               THEN fadd(g.initialBounds.minY, fsub(y, g.startY)) ELSE g.initialBounds.minY,
      maxY |-> IF g.resizeHandle \in {"br", "b", "bl"}
               THEN fadd(g.initialBounds.maxY, fsub(y, g.startY)) ELSE g.initialBounds.maxY ]

\* The box is narrower or lower than the minimum.
belowMinimum(b) ==
    \/ LessThan(fsub(b.maxX, b.minX), minResizeSize)
    \/ LessThan(fsub(b.maxY, b.minY), minResizeSize)

\* The resize step that keeps the reference bounds of the pointer-down.
resizeNumbers_KeepReference(g, x, y) ==
    IF belowMinimum(resizedNumbers(g, x, y))
    THEN g
    ELSE [g EXCEPT !.pt = scalePoint(@, g.initialBounds, resizedNumbers(g, x, y)),
                   !.startX = x, !.startY = y]

\* handleMouseMove, type 'resize', on a selected point: a box below the
\* minimum is refused; else the point is scaled from the reference bounds to
\* the new box, which becomes the reference of the next move.
resizeNumbers(g, x, y) ==
    IF belowMinimum(resizedNumbers(g, x, y))
    THEN g
    ELSE [g EXCEPT !.pt = scalePoint(@, g.initialBounds, resizedNumbers(g, x, y)),
                   !.startX = x, !.startY = y,
                   !.initialBounds = resizedNumbers(g, x, y)]

GestureBox ==
    [ minX |-> Num(GestureBoxMin), maxX |-> Num(GestureBoxMax),
      minY |-> Num(GestureBoxMin), maxY |-> Num(GestureBoxMax) ]

GesturePoints == { <<Num(c[1]), Num(c[2])>> : c \in GestureCoords \X GestureCoords }

\* The rounding allowance, in units of 2^-MantissaBits of the largest pointer
\* coordinate, after one more scale from a side of length oldSize to one of
\* length newSize: the allowance so far grows with the scale factor (and by
\* an eighth for the rounding of the factor and of the product), and the
\* scale's own four roundings add five units.
ErrStep(err, oldSize, newSize) ==
    (9 * Exact(newSize)[1] * Exact(oldSize)[2] * err + 8 * Exact(oldSize)[1] * Exact(newSize)[2] - 1)
        \div (8 * Exact(oldSize)[1] * Exact(newSize)[2]) + 5

\* What is noted of a gesture beside its dragging state: the allowances in X
\* and in Y, the number of moves, and the last box that was accepted.
NotedStep(noted, oldBounds, newBounds) ==
    [ errX |-> ErrStep(noted.errX, fsub(oldBounds.maxX, oldBounds.minX),
                       fsub(newBounds.maxX, newBounds.minX)),
      errY |-> ErrStep(noted.errY, fsub(oldBounds.maxY, oldBounds.minY),
                       fsub(newBounds.maxY, newBounds.minY)),
      moves |-> noted.moves,
      box |-> newBounds ]

\* Pointer-down on the upper left or the lower right handle of the box.
GestureDown ==
    \E pt \in GesturePoints, handle \in {"tl", "br"} :
        /\ last.op = "init"
        /\ last' = Op("resizeDown", TRUE,
                      [ pt |-> pt, pt0 |-> pt, resizeHandle |-> handle,
                        startX |-> IF handle = "tl" THEN GestureBox.minX ELSE GestureBox.maxX,
                        startY |-> IF handle = "tl" THEN GestureBox.minY ELSE GestureBox.maxY,
                        initialBounds |-> GestureBox, originalBounds |-> GestureBox ],
                      << [ errX |-> 0, errY |-> 0, moves |-> 0, box |-> GestureBox ] >>)
        /\ UNCHANGED <<entities, history, run, ctlVars, timeVars, timers>>

\* A pointer-move of the gesture.
GestureMove ==
    \E pos \in GesturePos :
        /\ last.op \in {"resizeDown", "resizeMove"}
        /\ last.args[1].moves < MaxGestureMoves
        /\ \E g \in { resizeNumbers(last.ret, Num(pos), Num(pos)) } :
             last' = Op("resizeMove", TRUE, g,
                        << IF g = last.ret
                           THEN [last.args[1] EXCEPT !.moves = @ + 1]
                           ELSE [ NotedStep(last.args[1], last.ret.initialBounds,
                                            resizedNumbers(last.ret, Num(pos), Num(pos)))
                                    EXCEPT !.moves = @ + 1 ] >>)
        /\ UNCHANGED <<entities, history, run, ctlVars, timeVars, timers>>

\* Pointer-up: the command is built from the original and the reference
\* bounds.
GestureUp ==
    /\ last.op \in {"resizeDown", "resizeMove"}
    /\ last' = Op("resizeUp", TRUE, last.ret,
                  << last.args[1],
                     ScaleMultipleCommand(1, << >>, << >>, last.ret.originalBounds,
                                          last.ret.initialBounds) >>)
    /\ UNCHANGED <<entities, history, run, ctlVars, timeVars, timers>>

\* Ctrl+Z right after it: the command scales from its final box back to its
\* original one.
GestureUndo ==
    /\ last.op = "resizeUp"
    /\ last' = Op("resizeUndo", TRUE,
                  [last.ret EXCEPT !.pt = scalePoint(@, last.args[2].newBounds,
                                                     last.args[2].oldBounds)],
                  << NotedStep(last.args[1], last.args[2].newBounds, last.args[2].oldBounds),
                     last.args[2] >>)
    /\ UNCHANGED <<entities, history, run, ctlVars, timeVars, timers>>

NextGesture == GestureDown \/ GestureMove \/ GestureUp \/ GestureUndo

SpecGesture == Init /\ [][NextGesture]_vars

\* ------------------------------------------------------- the pause key
\* Game.togglePause().
togglePause(paused) == ~paused

\* The steps of Game.update(timestamp, delta) against the clock, on the
\* controller S, its timers T and the engine's accumulator acc: the physics
\* step, the spawners, the off-screen removal and the interaction update.
updateStepsAt(G, m, now, delta, fall) ==
    LET E1 == physicsUpdate(G.S.E, fall)
        E2 == updateSpawnersAt(E1, E1.spawners, now)
        E3 == removeOffScreenBalls(E2, screenHeight)
    IN [ S |-> interactionUpdateAt([G.S EXCEPT !.E = E3], m, G.T, now),
         T |-> IF sprayDue(G.S, m, G.T, now) THEN [G.T EXCEPT !.lastBallSpray = now] ELSE G.T,
         acc |-> engineUpdate(G.acc, delta).accumulator ]

\* Game.update that does not look at isPaused.
gameUpdateAt_IgnorePause(G, m, paused, now, delta, fall) ==
    updateStepsAt(G, m, now, delta, fall)

\* Game.update(timestamp, delta): if (this.isPaused) return.
gameUpdateAt(G, m, paused, now, delta, fall) ==
    IF paused THEN G ELSE updateStepsAt(G, m, now, delta, fall)

\* One frame, tick ms after the last, paused or not: all the balls fall out,
\* or none does. last holds the frame's time and whether the game was paused.
PauseFrame ==
    \E tick \in PauseTicks,
       fall \in { {}, { entities.balls[i].id : i \in 1..Len(entities.balls) } } :
        /\ clock + tick <= MaxPauseTime
        /\ \E G \in { gameUpdateAt([ S |-> Ctl, T |-> timers, acc |-> accumulator ], mouse,
                                   isPaused, clock + tick, tick * TicksPerMs, fall) } :
             /\ Len(G.S.E.balls) <= MaxPauseBalls
             /\ clock' = clock + tick
             /\ entities' = G.S.E
             /\ ui' = render(G.S).ui
             /\ history' = G.S.H
             /\ timers' = G.T
             /\ accumulator' = G.acc
             /\ last' = Op("frame", TRUE, 0, <<clock + tick, isPaused>>)
             /\ UNCHANGED <<run, drawing, dragging, shiftPressed, origin, mouse, isPaused,
                            events, births, welcome>>

PauseDown == events < MaxPauseEvents /\ ~mouse.isDown /\ PointerDown(FALSE)
PauseUp ==
    /\ events < MaxPauseEvents /\ mouse.isDown
    /\ PointerUp(IF clock - timers.downTime >= holdThreshold THEN "hold"
                 ELSE IF clock - timers.downTime < clickThreshold THEN "click"
                 ELSE "between", FALSE)
PauseShiftDown == events < MaxPauseEvents /\ ~shiftPressed /\ PressShift(TRUE, FALSE)

\* The space key; last holds whether the game was paused before it.
PauseSpace ==
    /\ events < MaxPauseEvents
    /\ Event(Ctl, mouse, togglePause(isPaused), Op("togglePause", TRUE, 0, <<isPaused>>))

NextPause == PauseFrame \/ PauseDown \/ PauseUp \/ PauseShiftDown \/ PauseSpace

SpecPause == Init /\ [][NextPause]_vars

\* ============================================================== claims
InLines(E, line) == line \in SeqToSet(E.lines)
InSpawners(E, spawner) == spawner \in SeqToSet(E.spawners)
InBalls(E, ball) == ball \in { E.balls[i].id : i \in 1..Len(E.balls) }

\* The bodies in the world that were built for line object `line`.
BodiesOf(E, line) == { b \in E.world : b.label = "line" /\ b.id \in {2 * line, 2 * line + 1} }

\* C6: after updateLineEndpoint / updateLinePosition on a line of the line
\* collection the world holds exactly one body for that line, the new one (the
\* old one is gone), the line stores it, its midpoint, length and angle are
\* those of the new endpoints, and every other line and body is untouched.
C6_BodySwap ==
    [][ (last'.op \in {"updateLineEndpoint", "updateLinePosition"}
         /\ InLines(entities, last'.args[1]))
        => LET a == last'.args
               line == a[1]
               old == entities.lineObj[line]
               new == entities'.lineObj[line]
               want == IF last'.op = "updateLinePosition" THEN <<a[2], a[3], a[4], a[5]>>
                       ELSE IF a[2] = "start" THEN <<a[3], a[4], old.x2, old.y2>>
                       ELSE <<old.x1, old.y1, a[3], a[4]>>
           IN /\ LineGeo(entities', line) = want
              /\ new.body # old.body
              /\ old.body \notin entities'.world
              /\ BodiesOf(entities', line) = {new.body}
              /\ new.body.cx2 = want[1] + want[3]
              /\ new.body.cy2 = want[2] + want[4]
              /\ new.body.len2 = (want[3] - want[1]) * (want[3] - want[1])
                                 + (want[4] - want[2]) * (want[4] - want[2])
              /\ new.body.dx = want[3] - want[1]
              /\ new.body.dy = want[4] - want[2]
              /\ entities'.world \ {new.body} = entities.world \ {old.body}
              /\ entities'.lines = entities.lines
              /\ \A l \in 1..Len(entities.lineObj) :
                    l # line => entities'.lineObj[l] = entities.lineObj[l]
      ]_vars

\* An endpoint of one of two lines of the collection has just been updated.
C6_Witness ==
    /\ last.op = "updateLineEndpoint"
    /\ InLines(entities, last.args[1])
    /\ Len(entities.lines) = 2

\* C7: addLine with endpoints closer than minLineLength returns null and
\* changes nothing; otherwise it appends exactly one line, with the given
\* endpoints, and adds exactly one body, that line's.
C7_AddLineMinLength ==
    [][ last'.op = "addLine"
        => LET a == last'.args
               ret == last'.ret
           IN IF (a[3] - a[1]) * (a[3] - a[1]) + (a[4] - a[2]) * (a[4] - a[2])
                 < minLineLength * minLineLength
              THEN ret = Null /\ entities' = entities
              ELSE /\ ret # Null
                   /\ ~InLines(entities, ret)
                   /\ entities'.lines = Append(entities.lines, ret)
                   /\ LineGeo(entities', ret) = a
                   /\ entities'.lineObj[ret].body \notin entities.world
                   /\ entities'.world = entities.world \cup {entities'.lineObj[ret].body}
                   /\ entities'.balls = entities.balls
                   /\ entities'.spawners = entities.spawners
      ]_vars

\* addLine has just rejected a short segment in a scene that holds a line.
C7_Witness ==
    /\ last.op = "addLine"
    /\ last.ret = Null
    /\ Len(entities.lines) >= 1

\* C9: removeLine, removeBall and removeSpawner called with null or with an
\* entity that is not in its collection change neither the collections nor
\* the physics world.
C9_RemoveAbsentIsNoOp ==
    [][ (\/ last'.op = "removeLine" /\ ~InLines(entities, last'.args[1])
         \/ last'.op = "removeBall" /\ ~InBalls(entities, last'.args[1])
         \/ last'.op = "removeSpawner" /\ ~InSpawners(entities, last'.args[1]))
        => /\ entities'.lines = entities.lines
           /\ entities'.balls = entities.balls
           /\ entities'.spawners = entities.spawners
           /\ entities'.world = entities.world
      ]_vars


\* The identities of the command objects on the two stacks.
Cids(H) ==
    { H.undoStack[i].cid : i \in 1..Len(H.undoStack) }
    \cup { H.redoStack[i].cid : i \in 1..Len(H.redoStack) }

\* A step records a new forward action: a command object that was on neither
\* stack is on the undo stack.
RecordsCommand ==
    \E i \in 1..Len(history'.undoStack) : history'.undoStack[i].cid \notin Cids(history)

Front(s) == SubSeq(s, 1, Len(s) - 1)
LastN(s, n) == IF Len(s) <= n THEN s ELSE SubSeq(s, Len(s) - n + 1, Len(s))

\* C3: in every state the controller reaches, the bodies in the physics world
\* are exactly the current bodies of the lines of the line collection plus
\* the bodies of the balls of the ball collection.
C3_WorldMatchesScene ==
    entities.world =
        { entities.lineObj[entities.lines[i]].body : i \in 1..Len(entities.lines) }
        \cup { BallBody(entities.balls[i].id) : i \in 1..Len(entities.balls) }

\* C4: every step that records a new forward action (history.execute or the
\* drag push at pointer-up) leaves the redo stack empty; redo() on an empty
\* redo stack returns false and changes neither the stacks nor the scene.
C4_NewActionClearsRedo ==
    [][ /\ RecordsCommand => history'.redoStack = << >>
        /\ (last'.op = "redo" /\ history.redoStack = << >>)
              => (~last'.ok /\ history' = history /\ entities' = entities)
      ]_vars

\* After execute(A), execute(B), undo(), execute(C), a redo() has just
\* returned false: A and C are on the undo stack, B is gone.
C4_Witness ==
    /\ last.op = "redo" /\ ~last.ok
    /\ Len(history.undoStack) = 2
    /\ history.undoStack[1].cid = 1 /\ history.undoStack[2].cid = 3
    /\ history.redoStack = << >>

\* C5: the undo stack never holds more than maxHistorySize commands; a push
\* (history.execute or the drag push) keeps the most recent maxHistorySize
\* commands in their order, dropping the oldest; each undo of a non-empty
\* stack shortens it by one, so maxHistorySize undos empty it.
C5_UndoStackBounded ==
    [][ /\ Len(history'.undoStack) <= maxHistorySize
        /\ RecordsCommand
              => history'.undoStack =
                   LastN(Append(history.undoStack, Last(history'.undoStack)), maxHistorySize)
        /\ (last'.op = "undo" /\ history.undoStack # << >>)
              => Len(history'.undoStack) = Len(history.undoStack) - 1
      ]_vars

\* A drag push at pointer-up has just overflowed a full undo stack: the
\* oldest command is gone, the two most recent remain in order.
C5_Witness ==
    /\ last.op = "mouseUp"
    /\ Len(history.undoStack) = maxHistorySize
    /\ history.undoStack[1].cid = 2
    /\ Last(history.undoStack).cid = maxHistorySize + 1
    /\ Last(history.undoStack).type = "MoveLineEndpoint"

\* C8: undo() on an empty undo stack and redo() on an empty redo stack return
\* false and change nothing; otherwise undo() returns true, has called the top
\* command's undo and moved exactly that command to the redo stack, and
\* redo() returns true, has called the top command's execute and moved
\* exactly that command back onto the undo stack.
C8_UndoRedoMoveTop ==
    [][ /\ last'.op = "undo"
              => IF history.undoStack = << >>
                 THEN ~last'.ok /\ history' = history /\ entities' = entities
                 ELSE /\ last'.ok
                      /\ history'.undoStack = Front(history.undoStack)
                      /\ Len(history'.redoStack) = Len(history.redoStack) + 1
                      /\ Front(history'.redoStack) = history.redoStack
                      /\ Last(history'.redoStack).cid = Last(history.undoStack).cid
                      /\ entities' = cmdUndo(entities, Last(history.undoStack)).E
        /\ last'.op = "redo"
              => IF history.redoStack = << >>
                 THEN ~last'.ok /\ history' = history /\ entities' = entities
                 ELSE /\ last'.ok
                      /\ history'.redoStack = Front(history.redoStack)
                      /\ Len(history'.undoStack) = Len(history.undoStack) + 1
                      /\ Front(history'.undoStack) = history.undoStack
                      /\ Last(history'.undoStack).cid = Last(history.redoStack).cid
                      /\ entities' = cmdExecute(entities, Last(history.redoStack)).E
      ]_vars

\* A redo() has just moved a command back onto an undo stack that held one.
C8_Witness ==
    /\ last.op = "redo" /\ last.ok
    /\ Len(history.undoStack) = 2

\* C10: a single-line drag that ends at pointer-up with the line moved pushes
\* exactly one command and leaves the scene as the last pointer-move set it;
\* an undo() that follows sets the line back to its coordinates at
\* pointer-down and a redo() after that to its coordinates at pointer-up; a
\* command built from a discrete action is applied once by history.execute.
C10_DragPushedPreExecuted ==
    [][ /\ last'.op = "mouseUp"
              => /\ entities' = entities
                 /\ Last(history'.undoStack).cid \notin Cids(history)
                 /\ Last(history'.undoStack).line = dragging.line
                 /\ history'.undoStack =
                      LastN(Append(history.undoStack, Last(history'.undoStack)), maxHistorySize)
        /\ (last.op = "mouseUp" /\ last'.op = "undo")
              => LineGeo(entities', last.ret) =
                   <<dragging.initialX1, dragging.initialY1,
                     dragging.initialX2, dragging.initialY2>>
        /\ (last.op = "undo" /\ last.args[1] = "afterPush" /\ last'.op = "redo")
              => LineGeo(entities', last.ret) = last.args[2]
        /\ (last'.op \in {"event", "mouseDown", "delete", "draw"} /\ last'.args[1] = "execute")
              => /\ Last(history'.undoStack).cid \notin Cids(history)
                 /\ entities' = cmdExecute(entities, Last(history'.undoStack)).E
      ]_vars

\* The bodies in the world that are line bodies.
LineBodies(E) == { b \in E.world : b.label = "line" }

\* The lines of the collection whose endpoints are the segment g.
LinesAt(E, g) == { i \in 1..Len(E.lines) : LineGeo(E, E.lines[i]) = g }

\* C11: a pointer-up that finishes drawing a segment no shorter than the
\* minimum line length adds one line with these endpoints and one body, its
\* own; an undo() directly after it removes that line from the collection
\* and its body from the world; a redo() directly after that adds one line
\* with the same endpoints and exactly one body, that line's.
C11_DrawUndoRedo ==
    [][ /\ (last'.op = "draw" /\ last'.ret # Null)
              => LET line == last'.ret
                 IN /\ entities'.lines = Append(entities.lines, line)
                    /\ LineGeo(entities', line) = last'.args[2]
                    /\ entities'.lineObj[line].body \notin entities.world
                    /\ entities'.world = entities.world \cup {entities'.lineObj[line].body}
        /\ (last.op = "draw" /\ last.ret # Null /\ last'.op = "undo")
              => LET line == last.ret
                 IN /\ last'.ok
                    /\ ~InLines(entities', line)
                    /\ entities'.lines = Front(entities.lines)
                    /\ BodiesOf(entities', line) = {}
                    /\ entities'.world = entities.world \ {entities.lineObj[line].body}
        /\ (last.op = "undo" /\ last.args[1] = "afterDraw" /\ last.ret # Null
             /\ last'.op = "redo")
              => /\ last'.ok
                 /\ Len(entities'.lines) = Len(entities.lines) + 1
                 /\ Front(entities'.lines) = entities.lines
                 /\ LineGeo(entities', Last(entities'.lines)) = last.args[2]
                 /\ Cardinality(LinesAt(entities', last.args[2]))
                      = Cardinality(LinesAt(entities, last.args[2])) + 1
                 /\ entities'.lineObj[Last(entities'.lines)].body \notin entities.world
                 /\ entities'.world =
                      entities.world \cup {entities'.lineObj[Last(entities'.lines)].body}
      ]_vars

\* A redo() has just recreated a line that was drawn and then undone.
C11_Witness ==
    /\ last.op = "redo" /\ last.ok
    /\ Len(history.undoStack) = 1
    /\ history.undoStack[1].type = "AddLine"
    /\ history.undoStack[1].line = 2
    /\ entities.lines = <<2>>
    /\ Cardinality(LineBodies(entities)) = 1

\* The balls of a collection that are on screen for height h, in order.
OnScreen(balls, h) == SelectSeq(balls, LAMBDA b : b.y <= h + offScreenMargin)

\* C19: after removeOffScreenBalls(h) no ball with y > h + 200 is left in the
\* ball collection or, as a body, in the physics world; every ball with
\* y <= h + 200 is still there, and the remaining balls keep their order.
C19_OffScreenRemoved ==
    [][ last'.op = "removeOffScreenBalls"
        => LET h == last'.args[1]
               gone == { entities.balls[i].id :
                           i \in { j \in 1..Len(entities.balls) :
                                      entities.balls[j].y > h + offScreenMargin } }
           IN /\ entities'.balls = OnScreen(entities.balls, h)
              /\ \A i \in 1..Len(entities'.balls) :
                    entities'.balls[i].y <= h + offScreenMargin
              /\ entities'.world = entities.world \ { BallBody(id) : id \in gone }
              /\ \A id \in gone : BallBody(id) \notin entities'.world
      ]_vars

\* A sweep has just removed two consecutive off-screen balls that stood
\* before an on-screen ball, which remains.
C19_Witness ==
    /\ last.op = "removeOffScreenBalls"
    /\ last.ret = 2
    /\ Len(entities.balls) = 1
    /\ entities.balls[1].id = 3
    /\ entities.world = { BallBody(3) }

\* The largest frame-to-frame time step.
MaxTick == CHOOSE t \in TickInputs : \A u \in TickInputs : u <= t

\* C18: a spawner with interval I created at time t0 has produced no ball
\* before t0 + I, and by time t it has produced floor((t - t0) / I) balls,
\* give or take the balls of one frame tick: no more than floor((t - t0) / I)
\* and no fewer than floor((t - tick - t0) / I).
C18_SpawnerRate ==
    \A s \in 1..Len(births) :
        LET I == entities.spawnerObj[s].interval
            t0 == births[s].t0
        IN /\ clock < t0 + I => births[s].made = 0
           /\ births[s].made <= (clock - t0) \div I
           /\ clock - MaxTick >= t0 => births[s].made >= (clock - MaxTick - t0) \div I

\* |f - g| <= tol for numbers f, g and a fraction tol.
Within(f, g, tol) ==
    LET a == Exact(f)
        b == Exact(g)
    IN Abs(a[1] * b[2] - b[1] * a[2]) * tol[2] <= tol[1] * a[2] * b[2]

\* The rounding allowance of a scale round trip of coordinate x from the box
\* side [a, a2] to [b, b2] and back: 16 units of relative rounding error
\* (2^-MantissaBits each) on |x| + |a|, and on |b| amplified by the scale
\* factor (a2 - a) / (b2 - b) of the way back.
ScaleTol(x, a, a2, b, b2) ==
    LET ex(f) == Abs(Exact(f)[1])
        o == Exact(a2)[1] - Exact(a)[1]
        n == Exact(b2)[1] - Exact(b)[1]
    IN << 16 * (n * (ex(x) + ex(a)) + o * ex(b)), Pow2(MantissaBits) * n >>

\* C20 as stated: scaleMultiple(A, B) followed by scaleMultiple(B, A) leaves
\* every coordinate with exactly its original value.
C20_ScaleRoundTripExact ==
    last.op = "scaleBack" => last.ret = last.args[1]

\* C20, amended: scaleMultiple(A, B) followed by scaleMultiple(B, A) restores
\* every coordinate up to the rounding of the arithmetic, X from the X edges
\* of the boxes alone and Y from the Y edges alone.
C20_ScaleRoundTrip ==
    last.op = "scaleBack"
    => LET pt == last.args[1]
           A == last.args[2]
           B == last.args[3]
       IN /\ Within(last.ret[1], pt[1], ScaleTol(pt[1], A.minX, A.maxX, B.minX, B.maxX))
          /\ Within(last.ret[2], pt[2], ScaleTol(pt[2], A.minY, A.maxY, B.minY, B.maxY))

\* A round trip has just ended beside the original X value, and on the
\* original Y value.
C20_Witness ==
    /\ last.op = "scaleBack"
    /\ last.ret[1] # last.args[1][1]
    /\ last.ret[2] = last.args[1][2]
    /\ last.args[2].minY # last.args[3].minY

\* C12: once three spawners are created and area-selected, a drag of the
\* multi-selection during which nothing else touches the history leaves, at
\* pointer-up, every member of the group at its pointer-down position plus
\* the pointer's total displacement, in one move or several, and pushes one
\* command holding that displacement; an undo directly after it puts every
\* member back at its pointer-down position.
C12_GroupMoveUndo ==
    [][ /\ (last'.op = "multiUp" /\ dragging.type = "multiple" /\ history = origin.H)
              => LET group == last'.args[2]
                     d == last'.args[4]
                 IN /\ GroupGeo(entities', group.lines, group.spawners)
                         = Shifted(origin.geo, d[1], d[2])
                    /\ d # <<0, 0>>
                         => /\ last'.args[1] = "push"
                            /\ Last(history'.undoStack).type = "MoveMultiple"
                            /\ Last(history'.undoStack).deltaX = d[1]
                            /\ Last(history'.undoStack).deltaY = d[2]
        /\ (/\ last.op = "multiUp" /\ last.args[1] = "push"
            /\ Last(history.undoStack).type = "MoveMultiple"
            /\ GroupGeo(entities, last.args[2].lines, last.args[2].spawners)
                 = Shifted(last.args[3], last.args[4][1], last.args[4][2])
            /\ last'.op = "undo")
              => GroupGeo(entities', last.args[2].lines, last.args[2].spawners) = last.args[3]
      ]_vars

\* The three spawners, dragged by (50, 50) and put back by the undo.
C12_Witness ==
    /\ last.op = "undo" /\ last.ok /\ last.args[1] = "afterMulti"
    /\ last.args[2].spawners = <<1, 2, 3>>
    /\ last.args[3].spawners = SceneSpawners
    /\ last.args[4] = <<50, 50>>
    /\ GroupGeo(entities, << >>, <<1, 2, 3>>).spawners = SceneSpawners
    /\ entities.spawners = <<1, 2, 3>>

\* C16: a pointer-up that ends a drag (endpoint, line, multiple or resize)
\* pushes a command onto the undo stack only if the coordinates of what was
\* dragged differ from those at pointer-down; when they are the same, the undo
\* stack and the redo stack are as before.
C16_NoOpDragNotPushed ==
    [][ (mouse.isDown /\ ~mouse'.isDown /\ dragging.active /\ ~ui.areaSelection.active)
          => LET group == Dragged(Ctl)
                 same == GroupGeo(entities, group.lines, group.spawners) = origin.geo
             IN /\ history'.undoStack # history.undoStack => ~same
                /\ same => history' = history
      ]_vars

\* C17: Delete with a non-empty multi-selection removes the selected lines
\* and spawners and nothing else and clears the multi-selection; else with a
\* selected line it removes that line and nothing else and deselects it; only
\* with neither does it clear all lines and spawners. What survives keeps
\* its coordinates.
C17_DeletePriority ==
    [][ last'.op = "delete"
          => LET multi == ui.selected
                 keptLines(gone) == SelectSeq(entities.lines, LAMBDA l : l \notin gone)
                 keptSpawners(gone) == SelectSeq(entities.spawners, LAMBDA sp : sp \notin gone)
                 untouched ==
                     /\ \A i \in 1..Len(entities'.lines) :
                           LineGeo(entities', entities'.lines[i]) = LineGeo(entities, entities'.lines[i])
                     /\ \A i \in 1..Len(entities'.spawners) :
                           SpawnerPos(entities', entities'.spawners[i])
                             = SpawnerPos(entities, entities'.spawners[i])
             IN IF hasMultipleSelection(ui)
                THEN /\ entities'.lines = keptLines(SeqToSet(multi.lines))
                     /\ entities'.spawners = keptSpawners(SeqToSet(multi.spawners))
                     /\ untouched
                     /\ ~hasMultipleSelection(ui')
                ELSE IF ui.selected.line # Null
                THEN /\ entities'.lines = keptLines({ui.selected.line})
                     /\ entities'.spawners = entities.spawners
                     /\ untouched
                     /\ ui'.selected.line = Null
                ELSE entities'.lines = << >> /\ entities'.spawners = << >>
      ]_vars

\* Delete has removed an area-selected spawner and left the other two.
C17_Witness ==
    /\ last.op = "delete" /\ last.args[2] = "multi"
    /\ entities.spawners = <<2, 3>>
    /\ GroupGeo(entities, << >>, <<2, 3>>).spawners = <<SceneSpawners[2], SceneSpawners[3]>>
    /\ ~hasMultipleSelection(ui)

\* What a press at the pointer's position does, by the priority order: a hit
\* on the help icon or the delete button, or a hovered spawner (which is
\* removed), enters no gesture; then a resize handle of the multi-selection
\* starts a resize, a press inside its box a group drag, a hovered endpoint
\* an endpoint drag, a hovered line a line drag that selects it; else Shift
\* decides between area selection and drawing. With gated, a held Shift
\* skips the spawner and the four drags.
DownOutcome(gated) ==
    LET x == mouse.x
        y == mouse.y
        free == ~gated \/ ~shiftPressed
        box == ui.multiSelectionBounds
        sameGesture ==
            drawing' = drawing /\ dragging' = dragging /\ ui'.areaSelection = ui.areaSelection
        started(type) ==
            /\ dragging'.active /\ dragging'.type = type
            /\ drawing' = drawing /\ ui'.areaSelection = ui.areaSelection
    IN IF isPointInHelpIcon(ui, x, y) \/ isPointInDeleteButton(ui, x, y)
       THEN sameGesture
       ELSE IF ui.hovered.spawner # Null /\ free
       THEN sameGesture /\ ui.hovered.spawner \notin SeqToSet(entities'.spawners)
       ELSE IF free /\ hasMultipleSelection(ui) /\ findResizeHandle(ui, x, y) # "none"
       THEN started("resize")
       ELSE IF /\ free /\ hasMultipleSelection(ui) /\ box.set
               /\ x >= box.minX /\ x <= box.maxX /\ y >= box.minY /\ y <= box.maxY
       THEN started("multiple")
       ELSE IF free /\ ui.hovered.endpoint # NoEndpoint
       THEN started("endpoint") /\ dragging'.line = ui.hovered.endpoint.line
       ELSE IF free /\ ui.hovered.line # Null
       THEN /\ started("line") /\ dragging'.line = ui.hovered.line
            /\ ui'.selected.line = ui.hovered.line
       ELSE IF shiftPressed
       THEN /\ ui'.areaSelection.active
            /\ ui'.areaSelection.x1 = x /\ ui'.areaSelection.y1 = y
            /\ drawing' = drawing /\ dragging' = dragging
       ELSE /\ drawing'.active /\ drawing'.x1 = x /\ drawing'.y1 = y
            /\ dragging' = dragging /\ ui'.areaSelection = ui.areaSelection

\* C13 as stated: pointer-down follows the priority order (1) help icon,
\* delete button, hovered spawner, (2) resize handle, (3) inside the
\* multi-selection box, (4) hovered endpoint, (5) hovered line, (6) area
\* selection with Shift held, else drawing, and Shift matters at (6) only.
C13_DownPriority ==
    [][ last'.op = "mouseDown" => DownOutcome(FALSE) ]_vars

\* C13 (amended): pointer-down follows that priority order, but a held Shift
\* skips the spawner removal and steps (2) to (5): with Shift held, a press
\* that misses the help icon and the delete button starts an area selection.
C13_DownPriorityShift ==
    [][ last'.op = "mouseDown" => DownOutcome(TRUE) ]_vars

\* With Shift held, a press on a hovered line has started an area selection
\* and no drag.
C13_Witness ==
    /\ last.op = "mouseDown" /\ shiftPressed
    /\ ui.hovered.line # Null
    /\ ui.areaSelection.active /\ ui.areaSelection.x1 = mouse.x /\ ui.areaSelection.y1 = mouse.y
    /\ mouse.downX = mouse.x /\ mouse.downY = mouse.y
    /\ ~dragging.active /\ ~drawing.active

\* C14: in every reachable state at most one of drawing, dragging and area
\* selection is active, and an active drag has exactly one of the four types.
C14_OneModeActive ==
    /\ ~(drawing.active /\ dragging.active)
    /\ ~(drawing.active /\ ui.areaSelection.active)
    /\ ~(dragging.active /\ ui.areaSelection.active)
    /\ dragging.active => dragging.type \in {"endpoint", "line", "multiple", "resize"}

\* C15: a pointer-up while drawing is active issues an AddLine command if and
\* only if the pointer is farther than minDragDistance from where the
\* drawing started; if it is not, the lines are as before; the step creates
\* at most one line, ball or spawner in all, and drawing is inactive after it.
C15_DrawingFinish ==
    [][ (mouse.isDown /\ ~mouse'.isDown /\ drawing.active)
          => LET far == Hypot2(mouse.x - drawing.x1, mouse.y - drawing.y1)
                          > minDragDistance * minDragDistance
                 issued == /\ history'.undoStack # << >>
                           /\ Last(history'.undoStack).type = "AddLine"
                           /\ Last(history'.undoStack).cid \notin Cids(history)
                 created == (Len(entities'.lines) - Len(entities.lines))
                              + (Len(entities'.balls) - Len(entities.balls))
                              + (Len(entities'.spawners) - Len(entities.spawners))
             IN /\ issued <=> far
                /\ ~far => /\ entities'.lines = entities.lines
                           /\ entities'.lineObj = entities.lineObj
                /\ Len(entities'.lines) >= Len(entities.lines)
                /\ Len(entities'.balls) >= Len(entities.balls)
                /\ Len(entities'.spawners) >= Len(entities.spawners)
                /\ created <= 1
                /\ ~drawing'.active
      ]_vars

\* C21: ClearAll.execute empties the line and spawner collections, removes
\* every line body from the physics world and captures the endpoints and
\* positions; its undo adds, after what is there, one line for every captured
\* line and one spawner for every captured spawner, with the same endpoints /
\* positions.
C21_ClearAllRoundTrip ==
    [][ /\ (last'.op = "execute" /\ last'.args[1] = "ClearAll")
           => LET cmd == Last(history'.undoStack)
              IN /\ entities'.lines = << >>
                 /\ entities'.spawners = << >>
                 /\ \A b \in entities'.world : b.label # "line"
                 /\ cmd.lineData = GroupGeo(entities, entities.lines, entities.spawners).lines
                 /\ cmd.spawnerData = GroupGeo(entities, entities.lines, entities.spawners).spawners
        /\ (last'.op = "undo" /\ last'.ok /\ Last(history.undoStack).type = "ClearAll")
           => LET cmd == Last(history.undoStack)
                  n == Len(entities.lines)
                  k == Len(entities.spawners)
              IN /\ Len(entities'.lines) = n + Len(cmd.lineData)
                 /\ Len(entities'.spawners) = k + Len(cmd.spawnerData)
                 /\ \A i \in 1..Len(cmd.lineData) :
                       /\ n + i <= Len(entities'.lines)
                       /\ LineGeo(entities', entities'.lines[n + i]) = cmd.lineData[i]
                 /\ \A i \in 1..Len(cmd.spawnerData) :
                       /\ k + i <= Len(entities'.spawners)
                       /\ SpawnerPos(entities', entities'.spawners[k + i]) = cmd.spawnerData[i]
      ]_vars

\* C22: while the line that an endpoint or whole-line drag targets is no
\* longer in the line collection, a pointer-move and the pointer-up leave the
\* line collection, the physics world's body set and both history stacks
\* unchanged.
C22_RemovedTargetNoOp ==
    [][ ( /\ dragging.active /\ dragging.type \in {"endpoint", "line"}
          /\ ~ui.areaSelection.active
          /\ ~InLines(entities, dragging.line)
          /\ mouse' # mouse
          /\ mouse.isDown )
        => /\ entities'.lines = entities.lines
           /\ entities'.world = entities.world
           /\ history' = history
      ]_vars

\* C23: the pointer-up that ends an area selection makes the multi-selection
\* exactly the lines whose midpoint and the spawners whose point lie in the
\* rectangle spanned by the press and the release (edges included, whichever
\* corner came first), in collection order; it changes neither the entities
\* nor the history, and the area selection is inactive afterwards.
C23_AreaSelects ==
    [][ (mouse.isDown /\ ~mouse'.isDown /\ ui.areaSelection.active)
        => LET a == ui.areaSelection
               left == IF a.x1 <= a.x2 THEN a.x1 ELSE a.x2
               right == IF a.x1 <= a.x2 THEN a.x2 ELSE a.x1
               top == IF a.y1 <= a.y2 THEN a.y1 ELSE a.y2
               bottom == IF a.y1 <= a.y2 THEN a.y2 ELSE a.y1
               midIn(line) ==
                   /\ 2 * left <= LineGeo(entities, line)[1] + LineGeo(entities, line)[3]
                   /\ LineGeo(entities, line)[1] + LineGeo(entities, line)[3] <= 2 * right
                   /\ 2 * top <= LineGeo(entities, line)[2] + LineGeo(entities, line)[4]
                   /\ LineGeo(entities, line)[2] + LineGeo(entities, line)[4] <= 2 * bottom
               pointIn(spawner) ==
                   /\ left <= SpawnerPos(entities, spawner)[1]
                   /\ SpawnerPos(entities, spawner)[1] <= right
                   /\ top <= SpawnerPos(entities, spawner)[2]
                   /\ SpawnerPos(entities, spawner)[2] <= bottom
           IN /\ ui'.selected.lines = SelectSeq(entities.lines, midIn)
              /\ ui'.selected.spawners = SelectSeq(entities.spawners, pointIn)
              /\ ~ui'.areaSelection.active
              /\ entities' = entities
              /\ history' = history
      ]_vars

\* An area selection dragged from its lower right to its upper left corner
\* has just ended with the line selected, whose midpoint is on the upper edge.
C23_Witness ==
    /\ ~mouse.isDown /\ ~ui.areaSelection.active
    /\ ui.areaSelection.x2 < ui.areaSelection.x1
    /\ ui.areaSelection.y2 < ui.areaSelection.y1
    /\ mouse.x = ui.areaSelection.x2 /\ mouse.y = ui.areaSelection.y2
    /\ ui.selected.lines # << >>
    /\ \A i \in 1..Len(ui.selected.lines) :
          LineGeo(entities, ui.selected.lines[i])[2]
            + LineGeo(entities, ui.selected.lines[i])[4] = 2 * ui.areaSelection.y2

\* The box that a resize drag asks for when the pointer goes to (x, y): the
\* edges the grabbed handle is on follow the pointer.
TargetBox(x, y) ==
    LET b == dragging.initialBounds
        dx == x - dragging.startX
        dy == y - dragging.startY
        onLeft == dragging.resizeHandle \in {"tl", "l", "bl"}
        onRight == dragging.resizeHandle \in {"tr", "r", "br"}
        onTop == dragging.resizeHandle \in {"tl", "t", "tr"}
        onBottom == dragging.resizeHandle \in {"bl", "b", "br"}
    IN [ minX |-> IF onLeft THEN b.minX + dx ELSE b.minX,
         maxX |-> IF onRight THEN b.maxX + dx ELSE b.maxX,
         minY |-> IF onTop THEN b.minY + dy ELSE b.minY,
         maxY |-> IF onBottom THEN b.maxY + dy ELSE b.maxY ]

\* C24: a pointer-move of a resize drag whose target box is narrower or lower
\* than 50 (inverted boxes included) changes no entity and nothing of the
\* drag; a move that does scale makes the target box, at least 50 wide and
\* 50 high, the drag's reference bounds.
C24_ResizeMinimum ==
    [][ ( /\ dragging.active /\ dragging.type = "resize" /\ ~ui.areaSelection.active
          /\ mouse'.isDown = mouse.isDown
          /\ (mouse'.x # mouse.x \/ mouse'.y # mouse.y) )
        => LET t == TargetBox(mouse'.x, mouse'.y)
               small == t.maxX - t.minX < 50 \/ t.maxY - t.minY < 50
           IN /\ small => (entities' = entities /\ dragging' = dragging)
              /\ ~small => /\ dragging'.initialBounds.minX = t.minX
                           /\ dragging'.initialBounds.maxX = t.maxX
                           /\ dragging'.initialBounds.minY = t.minY
                           /\ dragging'.initialBounds.maxY = t.maxY
              /\ entities' # entities
                   => /\ dragging'.initialBounds.maxX - dragging'.initialBounds.minX >= 50
                      /\ dragging'.initialBounds.maxY - dragging'.initialBounds.minY >= 50
      ]_vars

\* A resize drag whose pointer has left the grabbed handle for a place that
\* asks for a box below the minimum: the move there was refused.
C24_Witness ==
    /\ dragging.active /\ dragging.type = "resize" /\ ~ui.areaSelection.active
    /\ mouse.isDown
    /\ (mouse.x # dragging.startX \/ mouse.y # dragging.startY)
    /\ \/ TargetBox(mouse.x, mouse.y).maxX - TargetBox(mouse.x, mouse.y).minX < 50
       \/ TargetBox(mouse.x, mouse.y).maxY - TargetBox(mouse.x, mouse.y).minY < 50
    /\ dragging.initialBounds = dragging.originalBounds

\* The bodies of balls in the physics world.
BallBodies(E) == { b \in E.world : b.label = "ball" }

\* C25: undo() and redo() leave the ball collection and the balls' bodies as
\* they are, whatever command they undo or redo; and a step that creates,
\* removes or moves a ball (a click, a spray, a spawner's tick, the removal
\* of off-screen balls, the clear-balls key) leaves both history stacks as
\* they are.
C25_BallsOutsideHistory ==
    [][ /\ last'.op \in {"undo", "redo"}
           => /\ entities'.balls = entities.balls
              /\ BallBodies(entities') = BallBodies(entities)
        /\ (entities'.balls # entities.balls \/ BallBodies(entities') # BallBodies(entities))
           => history' = history
      ]_vars

\* A command has just been undone while a ball was in the scene.
C25_Witness ==
    /\ last.op = "undo" /\ last.ok
    /\ history.redoStack # << >>
    /\ entities.balls # << >>

\* The place of a step in a frame.
StepRank(name) ==
    CASE name = "begin" -> 0 [] name = "physics" -> 1 [] name = "balls" -> 2
      [] name = "spawners" -> 3 [] name = "offscreen" -> 4 [] name = "interaction" -> 5
      [] name = "render" -> 6

\* C26: in every animation frame the steps that run do so in the order
\* physics step, ball update, spawner ticks, off-screen ball removal,
\* interaction update; rendering comes after all of them, and it leaves the
\* line, ball and spawner collections as the step before it left them.
C26_FrameOrder ==
    [][ last'.op = "animate" =>
          LET log == last'.args[1]
              n == Len(log)
          IN /\ \A i \in 1..n, j \in 1..n : i < j => StepRank(log[i].step) < StepRank(log[j].step)
             /\ log[n].step = "render"
             /\ log[n].lines = log[n - 1].lines
             /\ log[n].balls = log[n - 1].balls
             /\ log[n].spawners = log[n - 1].spawners ]_vars

\* The order alone.
C26_OrderOnly ==
    [][ last'.op = "animate" =>
          LET log == last'.args[1]
              n == Len(log)
          IN /\ \A i \in 1..n, j \in 1..n : i < j => StepRank(log[i].step) < StepRank(log[j].step)
             /\ log[n].step = "render" ]_vars

\* C27: every physics.update(delta) with delta >= 0 adds at most 1000/30 ms
\* to the accumulator, runs at most maxSubSteps engine steps, and leaves
\* 0 <= accumulator < fixedTimeStep: below the substep cap the accumulator
\* keeps what the steps did not consume, at the cap what is left is dropped.
C27_AccumulatorBounded ==
    [][ last'.op = "physics.update" =>
          LET delta == last'.args[1]
              added == IF delta < maxDelta THEN delta ELSE maxDelta
              steps == last'.ret
          IN /\ added <= (1000 * TicksPerMs) \div 30
             /\ steps \in 0..maxSubSteps
             /\ steps <= 4
             /\ 0 <= accumulator' /\ accumulator' < fixedTimeStep
             /\ steps < maxSubSteps => accumulator' = accumulator + added - steps * fixedTimeStep
             /\ steps = maxSubSteps => accumulator' = 0 ]_vars

\* A call with a delta beyond the cap that finds a non-empty accumulator: after
\* four steps more than a step's worth of backlog is left, and is dropped.
C27_Witness ==
    /\ last.op = "physics.update"
    /\ last.args[1] > maxDelta
    /\ last.args[2] > 0
    /\ last.ret = maxSubSteps
    /\ last.args[2] + maxDelta - maxSubSteps * fixedTimeStep >= fixedTimeStep
    /\ accumulator = 0

\* C28: setSpawnerInterval(spawner, ms) leaves the spawner's interval at ms
\* brought into [100, 5000] (100 for a lower ms, 5000 for a higher one) and
\* changes nothing when the spawner is null; and after every step, wheel
\* events of any size included, every spawner's interval lies in [100, 5000].
C28_IntervalClamped ==
    [][ /\ last'.op = "setSpawnerInterval" =>
             LET ms == last'.args[1]
             IN IF last'.ret = Null THEN entities' = entities
                ELSE /\ entities'.spawnerObj[last'.ret].interval =
                          (IF ms < 100 THEN 100 ELSE IF ms > 5000 THEN 5000 ELSE ms)
                     /\ \A s \in 1..Len(entities.spawnerObj) :
                          s # last'.ret => entities'.spawnerObj[s] = entities.spawnerObj[s]
                     /\ entities'.spawners = entities.spawners
        /\ last'.op = "handleWheel" =>
             IF last'.ret = Null THEN entities' = entities
             ELSE entities'.spawnerObj[last'.ret].interval =
                    LET to == entities.spawnerObj[last'.ret].interval + 50 * last'.args[1]
                    IN IF to < 100 THEN 100 ELSE IF to > 5000 THEN 5000 ELSE to
        /\ \A s \in 1..Len(entities'.spawnerObj) :
             entities'.spawnerObj[s].interval \in 100..5000 ]_vars

\* A wheel event over a spawner that would take its interval beyond 5000.
C28_Witness ==
    /\ last.op = "handleWheel"
    /\ last.ret # Null
    /\ last.args[3] + 50 * last.args[1] > 5000
    /\ entities.spawnerObj[last.ret].interval = 5000

\* The number of hover targets that are set in the interface state u.
HoverCount(u) ==
    (IF u.resizeHandle # "none" THEN 1 ELSE 0)
    + (IF u.hovered.endpoint # NoEndpoint THEN 1 ELSE 0)
    + (IF u.hovered.line # Null THEN 1 ELSE 0)
    + (IF u.hovered.spawner # Null THEN 1 ELSE 0)

\* C29: after every pointer-move made while nothing is drawn, dragged or
\* area-selected, at most one of the hover targets (resize handle, endpoint,
\* line, spawner) is set, and with a resize handle hovered the line, the
\* endpoint and the spawner hover are not set.
C29_HoverExclusive ==
    [][ ( /\ <<mouse'.x, mouse'.y>> # <<mouse.x, mouse.y>>
          /\ ~ui.areaSelection.active /\ ~dragging.active /\ ~drawing.active )
        => /\ HoverCount(ui') <= 1
           /\ ui'.resizeHandle # "none"
                => /\ ui'.hovered.line = Null
                   /\ ui'.hovered.endpoint = NoEndpoint
                   /\ ui'.hovered.spawner = Null ]_vars

\* The second half alone: nothing else is hovered with a resize handle.
C29_HandleAlone ==
    [][ ( /\ <<mouse'.x, mouse'.y>> # <<mouse.x, mouse.y>>
          /\ ~ui.areaSelection.active /\ ~dragging.active /\ ~drawing.active
          /\ ui'.resizeHandle # "none" )
        => /\ ui'.hovered.line = Null
           /\ ui'.hovered.endpoint = NoEndpoint
           /\ ui'.hovered.spawner = Null ]_vars

\* The place of a member in a collection.
PlaceIn(seq, member) == CHOOSE k \in 1..Len(seq) : seq[k] = member

\* The squared distance from (x, y) to spawner s and to an end of line l.
SpawnerDist2(E, s, x, y) == Hypot2(E.spawnerObj[s].x - x, E.spawnerObj[s].y - y)
EndDist2(E, l, e, x, y) ==
    IF e = "start" THEN Hypot2(x - E.lineObj[l].x1, y - E.lineObj[l].y1)
    ELSE Hypot2(x - E.lineObj[l].x2, y - E.lineObj[l].y2)

\* C30: findNearestLine, findNearestEndpoint and findNearestSpawner return a
\* member of the collection whose distance to (x, y) is strictly below the
\* threshold and before which, in the collection's order, no member is within
\* the threshold (for an endpoint: 'end' only when the line's start is not
\* within it), whether or not a later member is closer; they return null
\* exactly when no member is within the threshold; and they change nothing.
C30_FirstMatch ==
    [][ LET x == last'.args[1]
            y == last'.args[2]
            t == last'.args[3]
            E == entities
        IN /\ last'.op = "findNearestLine" =>
                /\ entities' = E
                /\ IF last'.ret = Null
                   THEN \A l \in SeqToSet(E.lines) : ~distanceToPointBelow(E.lineObj[l], x, y, t)
                   ELSE /\ InLines(E, last'.ret)
                        /\ distanceToPointBelow(E.lineObj[last'.ret], x, y, t)
                        /\ \A k \in 1..(PlaceIn(E.lines, last'.ret) - 1) :
                             ~distanceToPointBelow(E.lineObj[E.lines[k]], x, y, t)
           /\ last'.op = "findNearestEndpoint" =>
                /\ entities' = E
                /\ IF last'.ret = NoEndpoint
                   THEN \A l \in SeqToSet(E.lines), e \in {"start", "end"} :
                            EndDist2(E, l, e, x, y) >= t * t
                   ELSE /\ InLines(E, last'.ret.line)
                        /\ EndDist2(E, last'.ret.line, last'.ret.endpoint, x, y) < t * t
                        /\ last'.ret.endpoint = "end"
                             => EndDist2(E, last'.ret.line, "start", x, y) >= t * t
                        /\ \A k \in 1..(PlaceIn(E.lines, last'.ret.line) - 1), e \in {"start", "end"} :
                             EndDist2(E, E.lines[k], e, x, y) >= t * t
           /\ last'.op = "findNearestSpawner" =>
                /\ entities' = E
                /\ IF last'.ret = Null
                   THEN \A s \in SeqToSet(E.spawners) : SpawnerDist2(E, s, x, y) >= t * t
                   ELSE /\ last'.ret \in SeqToSet(E.spawners)
                        /\ SpawnerDist2(E, last'.ret, x, y) < t * t
                        /\ \A k \in 1..(PlaceIn(E.spawners, last'.ret) - 1) :
                             SpawnerDist2(E, E.spawners[k], x, y) >= t * t ]_vars

\* findNearestSpawner has returned the first spawner of the collection, the
\* one created last, although the second is closer to the point.
C30_Witness ==
    /\ last.op = "findNearestSpawner"
    /\ Len(entities.spawners) = 2
    /\ last.ret = entities.spawners[1]
    /\ SpawnerDist2(entities, entities.spawners[2], last.args[1], last.args[2])
         < SpawnerDist2(entities, entities.spawners[1], last.args[1], last.args[2])

\* findNearestEndpoint has returned the start of a line whose end is closer.
C30_StartFirst ==
    /\ last.op = "findNearestEndpoint"
    /\ last.ret # NoEndpoint
    /\ last.ret.endpoint = "start"
    /\ EndDist2(entities, last.ret.line, "end", last.args[1], last.args[2])
         < EndDist2(entities, last.ret.line, "start", last.args[1], last.args[2])

\* C31: one updateSpawners(now) call makes a spawner emit exactly when
\* now - lastSpawn > interval, strictly; an emitting spawner adds one ball, at
\* its own position, and its lastSpawn becomes now, however many intervals
\* have gone by; the others add none and keep their lastSpawn. Hence an
\* emission comes more than an interval after the previous one.
C31_OneBallPerInterval ==
    [][ last'.op = "updateSpawners" =>
          LET now == last'.args[1]
              E == entities
              emit(s) == now - E.spawnerObj[s].lastSpawn > E.spawnerObj[s].interval
              emitters == SelectSeq(E.spawners, emit)
          IN /\ Len(entities'.balls) = Len(E.balls) + Len(emitters)
             /\ Len(emitters) <= Len(E.spawners)
             /\ \A i \in 1..Len(E.balls) : entities'.balls[i] = E.balls[i]
             /\ \A k \in 1..Len(emitters) :
                  /\ entities'.balls[Len(E.balls) + k].x = E.spawnerObj[emitters[k]].x
                  /\ entities'.balls[Len(E.balls) + k].y = E.spawnerObj[emitters[k]].y
             /\ \A s \in SeqToSet(E.spawners) :
                  /\ entities'.spawnerObj[s].lastSpawn = (IF emit(s) THEN now ELSE E.spawnerObj[s].lastSpawn)
                  /\ births'[s].made = births[s].made + (IF emit(s) THEN 1 ELSE 0)
                  /\ (births'[s].made > births[s].made /\ births[s].made > 0)
                       => now - E.spawnerObj[s].lastSpawn > E.spawnerObj[s].interval
             /\ entities'.spawners = E.spawners /\ entities'.lines = E.lines ]_vars

\* A spawner's first emission, two intervals or more after time 0 at which its
\* lastSpawn stood: one ball.
C31_Witness ==
    /\ last.op = "updateSpawners"
    /\ Len(entities.balls) = 1
    /\ \E s \in SeqToSet(entities.spawners) :
         /\ births[s].made = 1
         /\ entities.spawnerObj[s].lastSpawn = clock
         /\ clock >= 2 * entities.spawnerObj[s].interval

\* A frame exactly one interval after an emission: no ball.
C31_AtInterval ==
    /\ last.op = "updateSpawners"
    /\ \E s \in SeqToSet(entities.spawners) :
         /\ births[s].made = 1
         /\ clock - entities.spawnerObj[s].lastSpawn = entities.spawnerObj[s].interval

\* The balls a frame added: those it holds more than the ones that did not
\* fall out of it.
Sprayed == Len(entities'.balls) - (Len(entities.balls) - Cardinality(last'.args[2]))

\* C32: a frame sprays balls only with the pointer down for more than 500 ms,
\* no drawing and no drag active, and more than 150 ms after the last burst;
\* a burst is of 1 to 3 balls, and leaves the lines, the spawners and both
\* history stacks as they were.
C32_SprayConditions ==
    [][ last'.op = "frame" =>
          /\ Sprayed >= 0
          /\ Sprayed > 0 =>
               /\ mouse.isDown
               /\ clock' - timers.downTime > 500
               /\ ~drawing.active /\ ~dragging.active
               /\ clock' - timers.lastBallSpray > 150
               /\ timers'.lastBallSpray = clock'
               /\ Sprayed \in 1..3
          /\ Sprayed = 0 => timers' = timers
          /\ entities'.lines = entities.lines /\ entities'.lineObj = entities.lineObj
          /\ entities'.spawners = entities.spawners /\ entities'.spawnerObj = entities.spawnerObj
          /\ history' = history ]_vars

\* A burst of three balls, two seconds into a hold.
C32_Witness ==
    /\ last.op = "frame"
    /\ mouse.isDown
    /\ timers.lastBallSpray = clock
    /\ clock - timers.downTime >= 2 * burstStepMs
    /\ Len(entities.balls) = 3

\* A box of positive width and height.
PositiveBox(b) == b.maxX - b.minX > 0 /\ b.maxY - b.minY > 0

\* The ScaleMultiple commands on the two stacks.
ScaleCommands ==
    { c \in SeqToSet(history.undoStack) \cup SeqToSet(history.redoStack) : c.type = "ScaleMultiple" }

\* C33: every box scaleMultiple can be handed as its source has positive
\* width and height: the box drawn around a multi-selection, the reference
\* bounds of a resize drag from its pointer-down on, and both boxes of every
\* ScaleMultiple command on the undo and the redo stack. No coordinate is
\* therefore ever divided by zero.
C33_PositiveBounds ==
    /\ ui.multiSelectionBounds.set => PositiveBox(ui.multiSelectionBounds)
    /\ (dragging.active /\ dragging.type = "resize")
         => /\ PositiveBox(dragging.initialBounds)
            /\ PositiveBox(dragging.originalBounds)
    /\ \A c \in ScaleCommands : PositiveBox(c.oldBounds) /\ PositiveBox(c.newBounds)

\* A resize drag that has scaled the group at least once.
C33_Witness ==
    /\ dragging.active /\ dragging.type = "resize" /\ mouse.isDown
    /\ dragging.initialBounds # dragging.originalBounds
    /\ PositiveBox(dragging.initialBounds)

\* A finished resize: its command, with two different boxes, is on the undo stack.
C33_Pushed ==
    /\ ~dragging.active
    /\ \E c \in SeqToSet(history.undoStack) :
         c.type = "ScaleMultiple" /\ c.oldBounds # c.newBounds

\* A group's coordinates scaled from the box oldBounds to the box newBounds.
ScaledGeo(geo, oldBounds, newBounds) ==
    LET sx(v) == scaleExact(v, oldBounds.minX, oldBounds.maxX, newBounds.minX, newBounds.maxX)
        sy(v) == scaleExact(v, oldBounds.minY, oldBounds.maxY, newBounds.minY, newBounds.maxY)
    IN [ lines |-> [ i \in 1..Len(geo.lines) |->
                       << sx(geo.lines[i][1]), sy(geo.lines[i][2]),
                          sx(geo.lines[i][3]), sy(geo.lines[i][4]) >> ],
         spawners |-> [ i \in 1..Len(geo.spawners) |->
                          << sx(geo.spawners[i][1]), sy(geo.spawners[i][2]) >> ] ]

\* C34: a pointer-down on a resize handle takes the drawn box as the
\* gesture's original bounds, which no pointer-move changes; at the pointer-up
\* of a resize during which the selection was kept and nothing else touched
\* the history, every member of the group is where one scale from the original bounds to the final
\* reference bounds puts its pointer-down coordinates, in one move or
\* several, and a pushed command is a ScaleMultiple of the group holding those
\* two boxes; an undo directly after it puts every member back at its
\* pointer-down coordinates.
C34_ResizeAsOneScale ==
    [][ /\ (last'.op = "mouseDown" /\ dragging'.active /\ dragging'.type = "resize"
            /\ ~dragging.active)
              => /\ dragging'.originalBounds = ui.multiSelectionBounds
                 /\ dragging'.initialBounds = ui.multiSelectionBounds
        /\ (dragging.active /\ dragging.type = "resize" /\ last'.op = "event"
            /\ dragging'.active)
              => dragging'.originalBounds = dragging.originalBounds
        /\ (/\ last'.op = "multiUp" /\ dragging.type = "resize" /\ history = origin.H
            /\ Len(ui.selected.lines) = Len(origin.geo.lines)
            /\ Len(ui.selected.spawners) = Len(origin.geo.spawners))
              => LET group == last'.args[2]
                 IN /\ GroupGeo(entities', group.lines, group.spawners)
                         = ScaledGeo(origin.geo, dragging.originalBounds, dragging.initialBounds)
                    /\ last'.args[1] = "push"
                         => /\ Len(history'.undoStack) > 0
                            /\ Last(history'.undoStack).type = "ScaleMultiple"
                            /\ Last(history'.undoStack).lines = group.lines
                            /\ Last(history'.undoStack).spawners = group.spawners
                            /\ Last(history'.undoStack).oldBounds = dragging.originalBounds
                            /\ Last(history'.undoStack).newBounds = dragging.initialBounds
        /\ (/\ last.op = "multiUp" /\ last.args[1] = "push"
            /\ Last(history.undoStack).type = "ScaleMultiple"
            /\ GroupGeo(entities, last.args[2].lines, last.args[2].spawners)
                 = ScaledGeo(last.args[3], Last(history.undoStack).oldBounds,
                             Last(history.undoStack).newBounds)
            /\ last'.op = "undo")
              => GroupGeo(entities', last.args[2].lines, last.args[2].spawners) = last.args[3]
      ]_vars

\* A resize that took the corner of the box around the three spawners from
\* 180 to 120, at once or by way of the doubled box, has been undone.
C34_Witness ==
    /\ last.op = "undo" /\ last.ok
    /\ Len(history.redoStack) > 0
    /\ Last(history.redoStack).type = "ScaleMultiple"
    /\ Last(history.redoStack).oldBounds.maxX = 180
    /\ Last(history.redoStack).newBounds.maxX = 120
    /\ mouse.downX = 180 /\ mouse.x = 120
    /\ GroupGeo(entities, <<>>, <<1, 2, 3>>).spawners = SceneSpawners

\* The command objects on the undo stack followed by those on the redo stack.
StackedCids ==
    [ i \in 1..(Len(history.undoStack) + Len(history.redoStack)) |->
        IF i <= Len(history.undoStack)
        THEN history.undoStack[i].cid
        ELSE history.redoStack[i - Len(history.undoStack)].cid ]

\* The allowance err as a distance: err units of 2^-MantissaBits of the
\* largest pointer coordinate.
GestureTol(err) == << err * Max(GesturePos), Pow2(MantissaBits) >>

C35_StacksBoundedDisjoint ==
    /\ Len(history.undoStack) + Len(history.redoStack) <= maxHistorySize
    /\ \A i, j \in DOMAIN StackedCids : StackedCids[i] = StackedCids[j] => i = j

\* After an undo the two stacks together are full, with commands on both.
C35_Witness ==
    /\ last.op = "undo" /\ last.ok
    /\ history.undoStack # << >> /\ history.redoStack # << >>
    /\ Len(history.undoStack) + Len(history.redoStack) = maxHistorySize

\* C36: every line in the line collection is at least minLineLength long, so
\* addLine would accept its current endpoints.
C36_LinesKeepMinLength ==
    \A i \in 1..Len(entities.lines) :
        LET l == entities.lineObj[entities.lines[i]]
        IN Hypot2(l.x2 - l.x1, l.y2 - l.y1) >= minLineLength * minLineLength

\* C37: the selected line, every member of the multi-selection and the
\* hovered line, endpoint and spawner are in the entity manager's collections.
C37_TargetsPresent ==
    /\ ui.selected.line # Null => ui.selected.line \in SeqToSet(entities.lines)
    /\ SeqToSet(ui.selected.lines) \subseteq SeqToSet(entities.lines)
    /\ SeqToSet(ui.selected.spawners) \subseteq SeqToSet(entities.spawners)
    /\ ui.hovered.line # Null => ui.hovered.line \in SeqToSet(entities.lines)
    /\ ui.hovered.endpoint.line # Null => ui.hovered.endpoint.line \in SeqToSet(entities.lines)
    /\ ui.hovered.spawner # Null => ui.hovered.spawner \in SeqToSet(entities.spawners)

\* C38: a pointer-up that ends a drawing dragged further than minDragDistance
\* without a line being added to the scene leaves the undo stack and the redo
\* stack as they were.
C38_RejectedDrawNoCommand ==
    [][ (/\ mouse.isDown /\ ~mouse'.isDown
         /\ drawing.active /\ ~dragging.active /\ ~ui.areaSelection.active
         /\ Hypot2(drawing.x2 - drawing.x1, drawing.y2 - drawing.y1)
              > minDragDistance * minDragDistance
         /\ entities'.lines = entities.lines)
          => history' = history
      ]_vars

\* C39: after a controller event other than undo and redo that takes lines or
\* spawners out of the scene, one undo() gives a scene with the lines and
\* spawners, geometry included, of before that event.
C39_DeletionUndoable ==
    [][ (/\ last'.op \notin {"undo", "redo"}
         /\ events' = events + 1
         /\ \/ Len(entities'.lines) < Len(entities.lines)
            \/ Len(entities'.spawners) < Len(entities.spawners))
          => Contents(historyUndo(entities', history').E) = Contents(entities)
      ]_vars

C40_SprayHeld ==
    /\ last.op = "frame" /\ last.args[2] /\ isPaused
    /\ sprayDue(Ctl, mouse, timers, clock)

\* The pause key was pressed twice in a row and the game runs.
C40_Resumed ==
    /\ last.op = "togglePause" /\ last.args[1] /\ ~isPaused

\* C1: after n <= maxHistorySize commands run through history.execute, n calls
\* of undo() return the line and spawner collections to their contents before
\* the first command (same count, same endpoints / positions).
C1_UndoRestores ==
    (run.phase = "undo" /\ run.k = run.n) => Contents(entities) = run.start

\* C2: after n commands and n undos, n calls of redo() reproduce the line and
\* spawner collections that existed just before the first undo.
C2_RedoReproduces ==
    (run.phase = "redo" /\ run.k = run.n) => Contents(entities) = run.preUndo

====
